---------------------------- MODULE Spec2Model ----------------------------
(***************************************************************************)
(* Colour reduction for Blender meshes and PNG textures                    *)
(* (tatmos/blender-4color-bambu).                                          *)
(*                                                                         *)
(* The module models its components each with its own variables and its   *)
(* own specification:                                                      *)
(*   SpecKM     kmeans_palette (reduce_color_png.py) and                   *)
(*              quantize_colors_kmeans (export_4color_3mf.py);             *)
(*              SpecKMLive is SpecKM with the loop taken to its end        *)
(*   SpecNearest the nearest-entry searches of both k-means functions and  *)
(*              nearest_palette_index (reduce_color_png.py)                *)
(*   SpecGuard  ensure_distinct_palette (export_4color_3mf.py)             *)
(*   SpecDither floyd_steinberg_dither and the direct nearest mapping of   *)
(*              reduce_color_png (reduce_color_png.py)                     *)
(*   SpecSplit  mesh_split_by_color (export_4color_3mf.py)                 *)
(*   SpecScene  the per-object pipeline of process_scene                   *)
(*              (export_4color_3mf.py)                                     *)
(*   SpecReduce the entry points of the PNG pipeline: main and             *)
(*              reduce_color_png (reduce_color_png.py), the operator and   *)
(*              reduce_color_from_arrays (reduce_color_png_blender.py)     *)
(*   SpecExport the unlinking for the export and the restore of            *)
(*              process_scene (export_4color_3mf.py)                       *)
(*   SpecSave   SAVE_UV_IMAGES_OT_to_folder.execute                        *)
(*              (save_uv_images_blender.py)                                *)
(*                                                                         *)
(* Numbers.  A colour is a triple of integers.  In the PNG pipeline a      *)
(* channel is the 8-bit value 0..255.  In the mesh pipeline a channel is a *)
(* float in 0..1, held here in units of 1/ChannelOne (0.05).  Python's     *)
(* floats are replaced by exact arithmetic: a centroid is the pair         *)
(* <<sum, count>> standing for sum/count, a dither accumulator is a        *)
(* numerator over a power of 16.  Comparisons are made by cross            *)
(* multiplication, so no rounding takes place where the code does not      *)
(* round; where the code rounds (round(), int()) the model rounds the same *)
(* way (half to even, truncation).                                         *)
(***************************************************************************)
EXTENDS Integers, Sequences, FiniteSets, TLC

VARIABLES
    \* ---- k-means (kmeans_palette / quantize_colors_kmeans)
    km_fn,          \* which of the two functions is running
    km_samples,     \* the argument pixels_rgb / face_colors
    km_k,           \* the argument k
    km_max_iter,    \* the argument max_iter
    km_pc,          \* "entry", "assign", "update", "done", "raised"
    km_centroids,   \* the local centroids: a sequence of <<sum, count>>
    km_assignments, \* the local assignments
    km_it,          \* number of completed iterations of the for loop
    km_passes,      \* number of assignment passes made so far
    km_palette,     \* the returned palette
    km_ret_assign,  \* the returned assignments (quantize_colors_kmeans only)
    km_runs,        \* number of calls made so far with these arguments
    \* ---- ensure_distinct_palette
    gd_palette,     \* the argument palette
    gd_k,           \* the argument k
    gd_pc,          \* "entry", "done"
    gd_out,         \* the returned palette
    \* ---- floyd_steinberg_dither / the direct mapping of reduce_color_png
    fs_img,         \* rgb_2d: height rows of width colours
    fs_width,       \* width
    fs_height,      \* height
    fs_palette,     \* palette
    fs_use_dither,  \* use_dither
    fs_pc,          \* "entry", "loop", "done", "raised"
    fs_f,           \* the accumulators f[y][x][c], as numerators over FsDen
    fs_out,         \* out / out_rgb_2d
    fs_row,         \* the local row of the direct mapping
    fs_i,           \* pixels processed so far (row-major: y * width + x)
    fs_err,         \* <<er, eg, eb>> of the pixel processed last (numerators)
    \* ---- mesh_split_by_color
    sp_name,        \* obj.name
    sp_faces,       \* the faces of obj.data: each a sequence of vertex indices
    sp_co,          \* the vertex positions of obj.data (mesh.vertices[i].co)
    sp_assignments, \* the argument assignments
    sp_palette,     \* the argument palette
    sp_pc,          \* "entry", "build", "done", "raised"
    sp_groups,      \* groups, in insertion order: [color_idx, faces]
    sp_gi,          \* number of groups the second loop has dealt with
    sp_linked,      \* the objects linked to the collection by this call
    sp_new_objects, \* new_objects
    sp_runs,        \* number of calls made so far
    bpy_materials,  \* bpy.data.materials: material name -> Base Color
    \* ---- process_scene, for one object of candidates
    ps_num_colors,  \* the setting NUM_COLORS
    ps_iterations,  \* the setting KMEANS_ITERATIONS
    ps_mode,        \* the setting EXPORT_MODE
    ps_face_colors, \* face_colors of the object
    ps_pc,          \* "entry", "quantized", "assigned", "guarded", "done", "raised"
    ps_palette,     \* the local palette
    ps_assignments, \* the local assignments
    ps_face_out,    \* per face, the colour the callee gave it
    \* ---- the PNG pipeline from its entry points
    rc_entry,       \* "main", "reduce_color_png", "operator"
    rc_colors,      \* --colors / num_colors
    rc_max_pixels,  \* --max-pixels / max_pixels_for_palette
    rc_iterations,  \* --kmeans-iterations / kmeans_iterations
    rc_use_dither,  \* not --no-dither / use_dither
    rc_width,       \* width of the image
    rc_height,      \* height of the image
    rc_pixels,      \* the RGBA pixels of the image, row-major
    rc_pc,          \* "entry", "called", "sampled", "clustered", "saved",
                    \* "rejected", "raised"
    rc_samples,     \* rgb_for_palette as handed to kmeans_palette
    rc_palette,     \* palette
    rc_out,         \* the RGBA pixels written to the output image
    \* ---- one nearest-entry lookup (k-means assignment step / nearest_palette_index)
    nr_fn,          \* "assign" (the k-means assignment step) or "nearest_palette_index"
    nr_sample,      \* the sample c / the pixel (r, g, b)
    nr_entries,     \* centroids (each <<sum, count>>) / palette
    nr_pc,          \* "entry", "done"
    nr_best,        \* the index found (0-based)
    \* ---- process_scene: unlinking for the export and the restore
    ex_mode,        \* the setting EXPORT_MODE
    ex_candidates,  \* candidates, as object names
    ex_created,     \* created, as object names
    ex_before,      \* the links <<object, collection>> before the unlinking
    ex_links,       \* the links <<object, collection>> as they are now
    ex_restored,    \* restored_collections: <<obj_name, col_names>>
    ex_created_cols, \* created_collections: <<obj_name, col_names>>
    ex_pc,          \* "entry", "try", "finally", "returned", "raised"
    ex_raising,     \* an exception left the try block
    \* ---- SAVE_UV_IMAGES_OT_to_folder.execute (save_uv_images_blender.py)
    sv_to_save,     \* to_save: images <<name, filepath_raw, size is non-zero>>
    sv_only_selected, \* the operator property only_selected
    sv_save_format, \* the operator property save_format
    sv_i,           \* the images of to_save handled so far
    sv_base_counts, \* base_counts
    sv_saved,       \* saved
    sv_pc           \* "entry", "loop", "finished", "cancelled"

kmVars == <<km_fn, km_samples, km_k, km_max_iter, km_pc, km_centroids,
            km_assignments, km_it, km_passes, km_palette, km_ret_assign,
            km_runs>>
gdVars == <<gd_palette, gd_k, gd_pc, gd_out>>
fsVars == <<fs_img, fs_width, fs_height, fs_palette, fs_use_dither, fs_pc,
            fs_f, fs_out, fs_row, fs_i, fs_err>>

spVars == <<sp_name, sp_faces, sp_co, sp_assignments, sp_palette, sp_pc,
            sp_groups, sp_gi, sp_linked, sp_new_objects, sp_runs, bpy_materials>>

psVars == <<ps_num_colors, ps_iterations, ps_mode, ps_face_colors, ps_pc,
            ps_palette, ps_assignments, ps_face_out>>

rcVars == <<rc_entry, rc_colors, rc_max_pixels, rc_iterations, rc_use_dither,
            rc_width, rc_height, rc_pixels, rc_pc, rc_samples, rc_palette,
            rc_out>>

nrVars == <<nr_fn, nr_sample, nr_entries, nr_pc, nr_best>>

exVars == <<ex_mode, ex_candidates, ex_created, ex_before, ex_links,
            ex_restored, ex_created_cols, ex_pc, ex_raising>>

svVars == <<sv_to_save, sv_only_selected, sv_save_format, sv_i,
            sv_base_counts, sv_saved, sv_pc>>

vars == <<kmVars, gdVars, fsVars, spVars, psVars, rcVars,
         nrVars, exVars, svVars>>

(* Each specification runs one component; the others stay idle. *)
KmIdle ==
    /\ km_fn = "none" /\ km_samples = <<>> /\ km_k = 0 /\ km_max_iter = 0
    /\ km_pc = "idle" /\ km_centroids = <<>> /\ km_assignments = <<>>
    /\ km_it = 0 /\ km_passes = 0 /\ km_palette = <<>> /\ km_ret_assign = <<>>
    /\ km_runs = 0

GdIdle ==
    /\ gd_palette = <<>> /\ gd_k = 0 /\ gd_pc = "idle" /\ gd_out = <<>>

FsIdle ==
    /\ fs_img = <<>> /\ fs_width = 0 /\ fs_height = 0 /\ fs_palette = <<>>
    /\ fs_use_dither = FALSE /\ fs_pc = "idle" /\ fs_f = <<>> /\ fs_out = <<>>
    /\ fs_row = <<>> /\ fs_i = 0 /\ fs_err = <<0, 0, 0>>

SpIdle ==
    /\ sp_name = "" /\ sp_faces = <<>> /\ sp_co = <<>> /\ sp_assignments = <<>>
    /\ sp_palette = <<>> /\ sp_pc = "idle" /\ sp_groups = <<>> /\ sp_gi = 0
    /\ sp_linked = <<>> /\ sp_new_objects = <<>> /\ sp_runs = 0
    /\ bpy_materials = <<>>

PsIdle ==
    /\ ps_num_colors = 0 /\ ps_iterations = 0 /\ ps_mode = "" /\ ps_face_colors = <<>>
    /\ ps_pc = "idle" /\ ps_palette = <<>> /\ ps_assignments = <<>>
    /\ ps_face_out = <<>>

RcIdle ==
    /\ rc_entry = "" /\ rc_colors = 0 /\ rc_max_pixels = 0 /\ rc_iterations = 0
    /\ rc_use_dither = FALSE /\ rc_width = 0 /\ rc_height = 0 /\ rc_pixels = <<>>
    /\ rc_pc = "idle" /\ rc_samples = <<>> /\ rc_palette = <<>> /\ rc_out = <<>>

NrIdle ==
    /\ nr_fn = "none" /\ nr_sample = <<>> /\ nr_entries = <<>> /\ nr_pc = "idle"
    /\ nr_best = 0

ExIdle ==
    /\ ex_mode = "" /\ ex_candidates = <<>> /\ ex_created = <<>> /\ ex_before = {}
    /\ ex_links = {} /\ ex_restored = <<>> /\ ex_created_cols = <<>>
    /\ ex_pc = "idle" /\ ex_raising = FALSE

SvIdle ==
    /\ sv_to_save = <<>> /\ sv_only_selected = FALSE /\ sv_save_format = ""
    /\ sv_i = 0 /\ sv_base_counts = <<>> /\ sv_saved = <<>> /\ sv_pc = "idle"

KmFrame == UNCHANGED <<gdVars, fsVars, spVars, psVars, rcVars,
                       nrVars, exVars, svVars>>
GdFrame == UNCHANGED <<kmVars, fsVars, spVars, psVars, rcVars,
                       nrVars, exVars, svVars>>
FsFrame == UNCHANGED <<kmVars, gdVars, spVars, psVars, rcVars,
                       nrVars, exVars, svVars>>
SpFrame == UNCHANGED <<kmVars, gdVars, fsVars, psVars, rcVars,
                       nrVars, exVars, svVars>>
PsFrame == UNCHANGED <<kmVars, gdVars, fsVars, spVars, rcVars,
                       nrVars, exVars, svVars>>
RcFrame == UNCHANGED <<kmVars, gdVars, fsVars, spVars, psVars,
                       nrVars, exVars, svVars>>
NrFrame == UNCHANGED <<kmVars, gdVars, fsVars, spVars, psVars,
                       rcVars, exVars, svVars>>
ExFrame == UNCHANGED <<kmVars, gdVars, fsVars, spVars, psVars,
                       rcVars, nrVars, svVars>>
SvFrame == UNCHANGED <<kmVars, gdVars, fsVars, spVars, psVars,
                       rcVars, nrVars, exVars>>

-----------------------------------------------------------------------------
(* Bounds of the model. *)
MaxN == 4
MaxK == 4
MaxIter == 2
MaxPal == 5
MaxW == 3
MaxH == 2
MaxPixels == 6
MaxPalLen == 2
MaxFaces == 4
MaxRuns == 2

(* Program constants. *)
ChannelMax == 255
ChannelOne == 20

-----------------------------------------------------------------------------
(* Small arithmetic helpers. *)
Min(a, b) == IF a < b THEN a ELSE b
Max(a, b) == IF a > b THEN a ELSE b

RECURSIVE SumSeq(_)
SumSeq(s) == IF s = <<>> THEN 0 ELSE Head(s) + SumSeq(Tail(s))

(* All sequences over S of length 0..n. *)
SeqsUpTo(S, n) == UNION {[1..m -> S] : m \in 0..n}

Gray(v) == <<v, v, v>>

-----------------------------------------------------------------------------
(* k-means: pure parts.                                                    *)

(* Mutant of PadPalettePng: the filler value is computed from len(base)
   instead of len(base) + 1. *)
RECURSIVE PadPalettePngOffByOne(_, _)
PadPalettePngOffByOne(base, k) ==
    IF Len(base) < k
    THEN PadPalettePngOffByOne(
             Append(base, Gray((ChannelMax * Len(base)) \div (k + 1))), k)
    ELSE SubSeq(base, 1, k)

(* reduce_color_png.py 27-33: fewer samples than k. *)
RECURSIVE PadPalettePng(_, _)
PadPalettePng(base, k) ==
    IF Len(base) < k
    THEN PadPalettePng(
             Append(base, Gray((ChannelMax * (Len(base) + 1)) \div (k + 1))), k)
    ELSE SubSeq(base, 1, k)

(* The three filler grays (0.2, 0.5, 0.8) of export_4color_3mf.py 182. *)
MeshFillers == <<Gray(4), Gray(10), Gray(16)>>

(* export_4color_3mf.py 181-182: the while loop that rebinds face_colors. *)
RECURSIVE PadColorsMesh(_, _)
PadColorsMesh(face_colors, k) ==
    IF Len(face_colors) < k
    THEN PadColorsMesh(
             face_colors \o SubSeq(MeshFillers, 1, Min(3, k - Len(face_colors))), k)
    ELSE face_colors

(* export_4color_3mf.py 183: the return of the short branch. *)
QuantizeShort(face_colors, k) ==
    LET padded == PadColorsMesh(face_colors, k)
    IN  [palette |-> SubSeq(padded, 1, Min(k, Len(padded))),
         assignments |-> [i \in 1..Len(padded) |-> 0]]

(* range(0, n, step) as a sequence of 0-based indices. *)
RangeStep(n, step) == [i \in 1..((n + step - 1) \div step) |-> (i - 1) * step]

(* Mutant of SeedTake: the slice [:k] is forgotten. *)
SeedTakeAll(picked, k) == picked

(* Mutant of SeedTake: every second call takes the last k instead. *)
SeedTakeByRun(picked, k) ==
    IF km_runs % 2 = 1 THEN SubSeq(picked, 1, Min(k, Len(picked)))
    ELSE SubSeq(picked, Max(1, Len(picked) - k + 1), Len(picked))

(* The slice [:k] of the strided samples (export 187, png 38). *)
SeedTake(picked, k) == SubSeq(picked, 1, Min(k, Len(picked)))

(* Mutant of SeedCentroids: the stride is rounded up. *)
SeedCentroidsCeil(samples, k) ==
    LET step == Max(1, (Len(samples) + k - 1) \div k)
        idx == RangeStep(Len(samples), step)
        picked == [i \in 1..Len(idx) |-> <<samples[idx[i] + 1], 1>>]
        taken == SeedTake(picked, k)
    IN  taken \o [i \in 1..(k - Len(taken)) |-> <<<<0, 0, 0>>, 1>>]

(* export_4color_3mf.py 186-189, reduce_color_png.py 37-40. *)
SeedCentroids(samples, k) ==
    LET step == Max(1, Len(samples) \div k)
        idx == RangeStep(Len(samples), step)
        picked == [i \in 1..Len(idx) |-> <<samples[idx[i] + 1], 1>>]
        taken == SeedTake(picked, k)
    IN  taken \o [i \in 1..(k - Len(taken)) |-> <<<<0, 0, 0>>, 1>>]

(* dist(a, b) ** 2 of sample c and centroid cen = <<sum, n>>, times n^2. *)
Dist2Num(c, cen) ==
    LET n == cen[2]
    IN  (c[1] * n - cen[1][1]) * (c[1] * n - cen[1][1])
      + (c[2] * n - cen[1][2]) * (c[2] * n - cen[1][2])
      + (c[3] * n - cen[1][3]) * (c[3] * n - cen[1][3])

(* Mutant of Closer: d <= best_d, so that a later entry wins a tie. *)
CloserOrEqual(c, cen, best) ==
    Dist2Num(c, cen) * best[2] * best[2] <= Dist2Num(c, best) * cen[2] * cen[2]

(* d < best_d (export 207-208, png 51-52), cross multiplied. *)
Closer(c, cen, best) ==
    Dist2Num(c, cen) * best[2] * best[2] < Dist2Num(c, best) * cen[2] * cen[2]

(* The scan for j in range(1, k) (export 204-211, png 48-54); ids 0-based. *)
RECURSIVE ScanCentroids(_, _, _, _, _)
ScanCentroids(c, centroids, k, j, best) ==
    IF j >= k THEN best
    ELSE CHOOSE r \in
             {ScanCentroids(c, centroids, k, j + 1, b) :
                 b \in {IF Closer(c, centroids[j + 1], centroids[best + 1])
                        THEN j ELSE best}} : TRUE

(* Mutant of NearestCentroid: cluster ids counted from 1. *)
NearestCentroidOneBased(c, centroids, k) ==
    ScanCentroids(c, centroids, k, 1, 0) + 1

NearestCentroid(c, centroids, k) == ScanCentroids(c, centroids, k, 1, 0)

(* One assignment pass over all samples. *)
AssignPass(samples, centroids, k) ==
    [i \in 1..Len(samples) |-> NearestCentroid(samples[i], centroids, k)]

(* The samples assigned to cluster j, as indices. *)
Members(assignments, j) == {i \in 1..Len(assignments) : assignments[i] = j}

RECURSIVE SumChannel(_, _, _)
SumChannel(samples, S, t) ==
    IF S = {} THEN 0
    ELSE LET i == CHOOSE x \in S : TRUE
         IN  samples[i][t] + SumChannel(samples, S \ {i}, t)

(* Mutant of UpdateCentroids: the sums and counts are not started from
   zero but carried on from the centroid of the iteration before. *)
UpdateCentroidsCarry(samples, assignments, centroids, k) ==
    [jj \in 1..Len(centroids) |->
        LET S == Members(assignments, jj - 1)
        IN  IF jj <= k /\ Cardinality(S) > 0
            THEN <<<<centroids[jj][1][1] + SumChannel(samples, S, 1),
                     centroids[jj][1][2] + SumChannel(samples, S, 2),
                     centroids[jj][1][3] + SumChannel(samples, S, 3)>>,
                   centroids[jj][2] + Cardinality(S)>>
            ELSE centroids[jj]]

(* Mutant of UpdateCentroids: the test counts[j] > 0 is missing and an
   empty cluster gets the zero sums. *)
UpdateCentroidsZeroEmpty(samples, assignments, centroids, k) ==
    [jj \in 1..Len(centroids) |->
        LET S == Members(assignments, jj - 1)
        IN  IF jj <= k
            THEN <<<<SumChannel(samples, S, 1), SumChannel(samples, S, 2),
                     SumChannel(samples, S, 3)>>, Max(1, Cardinality(S))>>
            ELSE centroids[jj]]

(* export_4color_3mf.py 213-222, reduce_color_png.py 55-64. *)
UpdateCentroids(samples, assignments, centroids, k) ==
    [jj \in 1..Len(centroids) |->
        LET S == Members(assignments, jj - 1)
        IN  IF jj <= k /\ Cardinality(S) > 0
            THEN <<<<SumChannel(samples, S, 1), SumChannel(samples, S, 2),
                     SumChannel(samples, S, 3)>>, Cardinality(S)>>
            ELSE centroids[jj]]

(* Python's round() of the exact fraction num/den, den > 0: half to even. *)
RoundHalfEven(num, den) ==
    LET q == num \div den
        r == num - q * den
    IN  IF 2 * r < den THEN q
        ELSE IF 2 * r > den THEN q + 1
        ELSE IF q % 2 = 0 THEN q ELSE q + 1

(* reduce_color_png.py 66-69: centroid (held in 0..255 units) to a pixel. *)
CentroidToPixel(cen) ==
    <<RoundHalfEven(cen[1][1], cen[2]), RoundHalfEven(cen[1][2], cen[2]),
      RoundHalfEven(cen[1][3], cen[2])>>

(* Mutant of LoopDone: the loop stops one iteration early. *)
LoopDoneEarly(it, max_iter) == it >= max_iter - 1

(* "for it in range(max_iter)" (export 199, png 46) has run out. *)
LoopDone(it, max_iter) == it >= max_iter

-----------------------------------------------------------------------------
(* k-means: inputs.  The mesh samples are binary fractions (1.0, 0.5, 0.75,
   0.25), for which the sums of the float code are exact; on these inputs
   and on the PNG samples the float code and the exact arithmetic of the
   model return the same palettes and assignments. *)
PngSamples == {<<255, 0, 0>>, <<0, 0, 255>>, <<10, 20, 30>>}
MeshSamples == {<<20, 20, 20>>, <<10, 10, 10>>, <<15, 5, 5>>}

KmInit ==
    /\ km_fn \in {"kmeans_palette", "quantize_colors_kmeans"}
    /\ km_samples \in SeqsUpTo(IF km_fn = "kmeans_palette" THEN PngSamples
                                                            ELSE MeshSamples, MaxN)
    /\ km_k \in 2..MaxK
    /\ km_max_iter \in 1..MaxIter
    /\ km_pc = "entry"
    /\ km_centroids = <<>>
    /\ km_assignments = <<>>
    /\ km_it = 0
    /\ km_passes = 0
    /\ km_palette = <<>>
    /\ km_ret_assign = <<>>
    /\ km_runs = 1
    /\ GdIdle /\ FsIdle /\ SpIdle /\ PsIdle /\ RcIdle /\ NrIdle /\ ExIdle
    /\ SvIdle

(* The branch "not samples or len(samples) < k" (export 179-183, png 27-33). *)
KmShort ==
    /\ km_pc = "entry"
    /\ Len(km_samples) < km_k
    /\ IF km_fn = "kmeans_palette"
       THEN /\ km_palette' = PadPalettePng(km_samples, km_k)
            /\ km_ret_assign' = <<>>
       ELSE /\ km_palette' = QuantizeShort(km_samples, km_k).palette
            /\ km_ret_assign' = QuantizeShort(km_samples, km_k).assignments
    /\ km_pc' = "done"
    /\ UNCHANGED <<km_fn, km_samples, km_k, km_max_iter, km_runs, km_centroids,
                   km_assignments, km_it, km_passes>>
    /\ KmFrame

(* Seeding and "assignments = [0] * len(...)" (export 186-198, png 36-45). *)
KmSeed ==
    /\ km_pc = "entry"
    /\ Len(km_samples) >= km_k
    /\ km_centroids' = SeedCentroids(km_samples, km_k)
    /\ km_assignments' = [i \in 1..Len(km_samples) |-> 0]
    /\ km_it' = 0
    /\ km_pc' = "assign"
    /\ UNCHANGED <<km_fn, km_samples, km_k, km_max_iter, km_runs, km_passes,
                   km_palette, km_ret_assign>>
    /\ KmFrame

(* The assignment pass of one iteration; centroids[j] with j >= len raises. *)
KmAssign ==
    /\ km_pc = "assign"
    /\ ~LoopDone(km_it, km_max_iter)
    /\ IF Len(km_centroids) < km_k
       THEN /\ km_pc' = "raised"
            /\ UNCHANGED <<km_assignments, km_passes>>
       ELSE /\ km_assignments' = AssignPass(km_samples, km_centroids, km_k)
            /\ km_passes' = km_passes + 1
            /\ km_pc' = "update"
    /\ UNCHANGED <<km_fn, km_samples, km_k, km_max_iter, km_runs, km_centroids, km_it,
                   km_palette, km_ret_assign>>
    /\ KmFrame

(* The centroid update that ends one iteration. *)
KmUpdate ==
    /\ km_pc = "update"
    /\ km_centroids' =
           UpdateCentroids(km_samples, km_assignments, km_centroids, km_k)
    /\ km_it' = km_it + 1
    /\ km_pc' = "assign"
    /\ UNCHANGED <<km_fn, km_samples, km_k, km_max_iter, km_runs, km_assignments,
                   km_passes, km_palette, km_ret_assign>>
    /\ KmFrame

(* The return after the loop (export 224, png 66-69). *)
KmReturn ==
    /\ km_pc = "assign"
    /\ LoopDone(km_it, km_max_iter)
    /\ IF km_fn = "kmeans_palette"
       THEN IF Len(km_centroids) < km_k
            THEN /\ km_pc' = "raised"
                 /\ UNCHANGED <<km_palette, km_ret_assign>>
            ELSE /\ km_palette' = [j \in 1..km_k |-> CentroidToPixel(km_centroids[j])]
                 /\ km_ret_assign' = <<>>
                 /\ km_pc' = "done"
       ELSE /\ km_palette' = km_centroids
            /\ km_ret_assign' = km_assignments
            /\ km_pc' = "done"
    /\ UNCHANGED <<km_fn, km_samples, km_k, km_max_iter, km_runs, km_centroids,
                   km_assignments, km_it, km_passes>>
    /\ KmFrame

(* The caller calls the function again with the same arguments; it still
   holds what the earlier call returned, the locals are new. *)
KmCallAgain ==
    /\ km_pc = "done"
    /\ km_runs < MaxRuns
    /\ km_runs' = km_runs + 1
    /\ km_pc' = "entry"
    /\ km_centroids' = <<>>
    /\ km_assignments' = <<>>
    /\ km_it' = 0
    /\ km_passes' = 0
    /\ UNCHANGED <<km_fn, km_samples, km_k, km_max_iter, km_palette,
                   km_ret_assign>>
    /\ KmFrame

KmNext == KmShort \/ KmSeed \/ KmAssign \/ KmUpdate \/ KmReturn \/ KmCallAgain

SpecKM == KmInit /\ [][KmNext]_vars

(* The interpreter runs the function to its end: a step that can be taken
   is taken. *)
SpecKMLive == SpecKM /\ WF_vars(KmNext)

-----------------------------------------------------------------------------
(* Claims about the k-means palette builder (checked under SpecKM).        *)

KmIsMesh == km_fn = "quantize_colors_kmeans"
KmN == Len(km_samples)

\* C1: for every N >= 0, k >= 2 and I >= 1 the call raises no error, its
\* loop never runs more than I iterations (so it completes), and the
\* palette it returns has exactly k entries (both pipelines).
C1_PaletteHasKEntries ==
    /\ km_pc \in {"entry", "assign", "update", "done"}
    /\ km_it <= km_max_iter /\ km_passes <= km_max_iter
    /\ km_pc = "done" => Len(km_palette) = km_k

\* C1 witness: a mesh call with N > k, N not a multiple of k, has returned.
C1_Witness ==
    /\ km_pc = "done" /\ KmIsMesh
    /\ KmN > km_k /\ KmN % km_k # 0
    /\ Len(km_palette) = km_k

\* C2: in quantize_colors_kmeans every entry of the assignment, after every
\* assignment pass and in the returned value, is an integer in 0..k-1.
C2_AssignmentInRange ==
    KmIsMesh =>
        /\ \A i \in DOMAIN km_assignments : km_assignments[i] \in 0..(km_k - 1)
        /\ \A i \in DOMAIN km_ret_assign : km_ret_assign[i] \in 0..(km_k - 1)

\* C2 witness: a returned assignment that uses the last cluster id k-1.
C2_Witness ==
    /\ km_pc = "done" /\ KmIsMesh /\ KmN >= km_k
    /\ \E i \in DOMAIN km_ret_assign : km_ret_assign[i] = km_k - 1

\* C3 (as claimed): the assignment returned by quantize_colors_kmeans has
\* one entry per input sample, also when N < k.
C3_AssignmentLengthIsN ==
    (km_pc = "done" /\ KmIsMesh) => Len(km_ret_assign) = KmN

\* The filler the claim expects at pad index i (0 for the first filler):
\* all channels (i+1)/(k+1) of the channel range.
C4_IsClaimedFiller(col, i) ==
    /\ col[1] = col[2] /\ col[2] = col[3]
    /\ IF KmIsMesh
       THEN col[1] * (km_k + 1) = ChannelOne * (i + 1)
       ELSE col[1] = (ChannelMax * (i + 1)) \div (km_k + 1)

\* C4 (as claimed): when N < k the palette is the N samples in order
\* followed by k-N fillers, the filler with pad index i being gray
\* (i+1)/(k+1).
C4_FillerByPadIndex ==
    (km_pc = "done" /\ KmN < km_k) =>
        /\ Len(km_palette) = km_k
        /\ \A p \in 1..km_k :
              IF p <= KmN THEN km_palette[p] = km_samples[p]
              ELSE C4_IsClaimedFiller(km_palette[p], p - KmN - 1)

\* C4 (amended): when N < k the palette is the N samples in order followed
\* by k-N fillers; in the PNG pipeline the filler at palette position p
\* (0-based, N <= p < k) is gray int(255*(p+1)/(k+1)); in the mesh pipeline
\* the fillers are the grays 0.2, 0.5, 0.8 taken in this order and repeated.
C4_FillerByPosition ==
    (km_pc = "done" /\ KmN < km_k) =>
        /\ Len(km_palette) = km_k
        /\ \A p \in 1..km_k :
              IF p <= KmN THEN km_palette[p] = km_samples[p]
              ELSE IF KmIsMesh
                   THEN km_palette[p] =
                            <<Gray(4), Gray(10), Gray(16)>>[((p - KmN - 1) % 3) + 1]
                   ELSE km_palette[p] = Gray((ChannelMax * p) \div (km_k + 1))

\* C4 witness: a PNG call with at least one real sample and two fillers.
C4_Witness ==
    /\ km_pc = "done" /\ ~KmIsMesh
    /\ KmN >= 1 /\ km_k - KmN >= 2
    /\ km_palette[1] = km_samples[1]


-----------------------------------------------------------------------------
(* ensure_distinct_palette (export_4color_3mf.py 227-240).                 *)
(* A luma is held in units of 1/(1000 * ChannelOne): 1.0 is 20000.         *)

(* 0.299*r + 0.587*g + 0.114*b (line 232). *)
Luma(c) == 299 * c[1] + 587 * c[2] + 114 * c[3]

LumaSum(palette) == SumSeq([i \in 1..Len(palette) |-> Luma(palette[i])])

(* Sums of squares are kept inside 32 bits: a square or a sum too large for
   them is replaced by the largest integer, which is above every threshold
   the sums are compared with. *)
SatSquare(d) == IF d > 46340 \/ d < -46340 THEN 2147483647 ELSE d * d
SatAdd(a, b) == IF a > 2147483647 - b THEN 2147483647 ELSE a + b

RECURSIVE SatSum(_)
SatSum(s) == IF s = <<>> THEN 0 ELSE SatAdd(Head(s), SatSum(Tail(s)))

(* variance < 0.02 (lines 233-234, 236):
   sum (lum_i - S/n)^2 / n < 0.02  <=>  sum (n*lum_i - S)^2 < 8000000 * n^3. *)
VarianceSmall(palette) ==
    LET n == Len(palette)
        S == LumaSum(palette)
    IN  SatSum([i \in 1..n |-> SatSquare(n * Luma(palette[i]) - S)])
            < 8000000 * n * n * n

(* avg_lum > 0.8 and avg_lum < 0.25 (lines 233, 236, 238). *)
MeanLumaBright(palette) == LumaSum(palette) > 16000 * Len(palette)

(* Mutant of MeanLumaDark: the dark test reuses the bright threshold 0.8. *)
MeanLumaDarkBelowBright(palette) == LumaSum(palette) < 16000 * Len(palette)

MeanLumaDark(palette) == LumaSum(palette) < 5000 * Len(palette)

(* The fixed sets of lines 237 and 239. *)
BrightSet == <<<<18, 4, 4>>, <<4, 10, 18>>, <<4, 15, 6>>, <<18, 17, 4>>>>
DarkSet == <<<<18, 5, 5>>, <<5, 10, 18>>, <<5, 16, 7>>, <<19, 18, 5>>>>

(* Lines 229-230: pad a short palette with (0.2, 0.2, 0.2). *)
GuardPad(palette, k) ==
    IF Len(palette) < k
    THEN palette \o [i \in 1..(k - Len(palette)) |-> Gray(4)]
    ELSE palette

EnsureDistinctPalette(palette, k) ==
    LET p == GuardPad(palette, k)
    IN  IF VarianceSmall(p) /\ MeanLumaBright(p) THEN BrightSet
        ELSE IF VarianceSmall(p) /\ MeanLumaDark(p) THEN DarkSet
        ELSE SubSeq(p, 1, k)

(* Inputs: near-white twice, mid gray, near-black. *)
GuardColours == {<<19, 19, 19>>, <<18, 19, 19>>, <<10, 10, 10>>, <<2, 2, 2>>}

GdInit ==
    /\ gd_palette \in SeqsUpTo(GuardColours, MaxPal)
    /\ gd_k \in 2..MaxK
    /\ gd_pc = "entry"
    /\ gd_out = <<>>
    /\ KmIdle /\ FsIdle /\ SpIdle /\ PsIdle /\ RcIdle /\ NrIdle /\ ExIdle
    /\ SvIdle

GdEnsure ==
    /\ gd_pc = "entry"
    /\ gd_out' = EnsureDistinctPalette(gd_palette, gd_k)
    /\ gd_pc' = "done"
    /\ UNCHANGED <<gd_palette, gd_k>>
    /\ GdFrame

GdNext == GdEnsure

SpecGuard == GdInit /\ [][GdNext]_vars

-----------------------------------------------------------------------------
(* Claims about the distinctness guard (checked under SpecGuard).          *)

C8_GuardReturnsKEntries ==
    gd_pc = "done" =>
        /\ Len(gd_out) = gd_k
        /\ (VarianceSmall(GuardPad(gd_palette, gd_k))
              /\ MeanLumaBright(GuardPad(gd_palette, gd_k)))
               => \A i \in 1..Len(gd_out) : gd_out[i] = BrightSet[((i - 1) % 4) + 1]
        /\ (VarianceSmall(GuardPad(gd_palette, gd_k))
              /\ MeanLumaDark(GuardPad(gd_palette, gd_k)))
               => \A i \in 1..Len(gd_out) : gd_out[i] = DarkSet[((i - 1) % 4) + 1]

AllSame(palette) == \A i, j \in 1..Len(palette) : palette[i] = palette[j]

\* C9 (as claimed): a degenerate input palette (k entries, luma variance
\* < 0.02), whatever its mean luma, never comes back as k identical colours.
C9_NeverDegenerateOut ==
    (gd_pc = "done" /\ Len(gd_palette) = gd_k /\ VarianceSmall(gd_palette))
        => ~AllSame(gd_out)

-----------------------------------------------------------------------------
(* floyd_steinberg_dither and the direct mapping (reduce_color_png.py).    *)

(* reduce_color_png.py 72-81; the result is the 0-based index. *)
PixDist2(r, g, b, entry) ==
    (r - entry[1]) * (r - entry[1]) + (g - entry[2]) * (g - entry[2])
        + (b - entry[3]) * (b - entry[3])

RECURSIVE ScanPalette(_, _, _, _, _, _)
ScanPalette(r, g, b, palette, i, best_i) ==
    IF i >= Len(palette) THEN best_i
    ELSE ScanPalette(r, g, b, palette, i + 1,
             IF PixDist2(r, g, b, palette[i + 1]) < PixDist2(r, g, b, palette[best_i + 1])
             THEN i ELSE best_i)

(* Mutant of nearest_palette_index: the scan is left out. *)
NearestPaletteFirst(r, g, b, palette) == 0

nearest_palette_index(r, g, b, palette) == ScanPalette(r, g, b, palette, 1, 0)

RECURSIVE Pow16(_)
Pow16(n) == IF n <= 0 THEN 1 ELSE 16 * Pow16(n - 1)

(* The accumulators are multiples of 16^-(width*height-1): the error of the
   pixel with row-major index p is a multiple of 16^-p, and only pixels with
   p <= width*height-2 hand an error on. *)
FsDen(width, height) == Pow16(width * height - 1)

(* max(0, min(255, round(v))) of an accumulator (lines 95-97). *)
ClampRound(num, den) == Max(0, Min(ChannelMax, RoundHalfEven(num, den)))

(* Mutant of EmitPixel: the rounded accumulator is written out. *)
EmitRounded(palette, idx, rgb) == rgb

(* Lines 99-100: the output pixel is the palette entry. *)
EmitPixel(palette, idx, rgb) == palette[idx + 1]

(* Mutant of ShareTargets: the test x - 1 >= 0 is missing, so that the
   index -1 addresses the last pixel of the next row. *)
ShareTargetsWrap(x, y, width, height) ==
    (IF x + 1 < width THEN {<<x + 1, y, 7>>} ELSE {})
    \cup (IF y + 1 < height
          THEN {<<x, y + 1, 5>>}
               \cup {<<(x - 1 + width) % width, y + 1, 3>>}
               \cup (IF x + 1 < width THEN {<<x + 1, y + 1, 1>>} ELSE {})
          ELSE {})

(* Mutant of ShareTargets: the 3/16 share goes to the left neighbour of the
   same row instead of the one below it. *)
ShareTargetsLeft(x, y, width, height) ==
    (IF x + 1 < width THEN {<<x + 1, y, 7>>} ELSE {})
    \cup (IF y + 1 < height
          THEN {<<x, y + 1, 5>>}
               \cup (IF x - 1 >= 0 THEN {<<x - 1, y, 3>>} ELSE {})
               \cup (IF x + 1 < width THEN {<<x + 1, y + 1, 1>>} ELSE {})
          ELSE {})

(* Lines 106-121: the neighbours that receive a share, <<x, y, sixteenths>>. *)
ShareTargets(x, y, width, height) ==
    (IF x + 1 < width THEN {<<x + 1, y, 7>>} ELSE {})
    \cup (IF y + 1 < height
          THEN {<<x, y + 1, 5>>}
               \cup (IF x - 1 >= 0 THEN {<<x - 1, y + 1, 3>>} ELSE {})
               \cup (IF x + 1 < width THEN {<<x + 1, y + 1, 1>>} ELSE {})
          ELSE {})

(* The sixteenths that pixel (tx, ty) receives from the targets T. *)
SharesTo(T, tx, ty) ==
    (IF <<tx, ty, 7>> \in T THEN 7 ELSE 0) + (IF <<tx, ty, 5>> \in T THEN 5 ELSE 0)
    + (IF <<tx, ty, 3>> \in T THEN 3 ELSE 0) + (IF <<tx, ty, 1>> \in T THEN 1 ELSE 0)

(* Mutant of PixelError: the error is taken from the rounded and clamped
   accumulator that was looked up in the palette. *)
PixelErrorClamped(acc, entry, den) ==
    [c \in 1..3 |-> (ClampRound(acc[c], den) - entry[c]) * den]

(* Lines 102-104: er, eg, eb = f[y][x][c] - palette entry. *)
PixelError(acc, entry, den) == [c \in 1..3 |-> acc[c] - entry[c] * den]

(* One pass of the loop body for pixel (x, y) (lines 95-121). *)
DitherPixel(f, palette, x, y, width, height) ==
    LET den == FsDen(width, height)
        r == ClampRound(f[y + 1][x + 1][1], den)
        g == ClampRound(f[y + 1][x + 1][2], den)
        b == ClampRound(f[y + 1][x + 1][3], den)
        idx == nearest_palette_index(r, g, b, palette)
        p == palette[idx + 1]
        err == PixelError(f[y + 1][x + 1], p, den)
        T == ShareTargets(x, y, width, height)
    IN  [pixel |-> EmitPixel(palette, idx, <<r, g, b>>),
         err |-> err,
         f |-> [yy \in 1..height |-> [xx \in 1..width |-> [c \in 1..3 |->
                 f[yy][xx][c] + (err[c] \div 16) * SharesTo(T, xx - 1, yy - 1)]]]]

(* Mutant of OutGrid: no rows are made for a grid without columns. *)
OutGridNoEmptyRows(width, height) ==
    IF width = 0 THEN <<>>
    ELSE [y \in 1..height |-> [x \in 1..width |-> <<0, 0, 0>>]]

(* Line 91: out, height rows of width pixels (0, 0, 0). *)
OutGrid(width, height) ==
    [y \in 1..height |-> [x \in 1..width |-> <<0, 0, 0>>]]

(* Inputs: grids over red and a colour that is in no palette, and grids
   over red and blue, whose pixels can all be palette entries. *)
FsPixelColours == {<<255, 0, 0>>, <<100, 50, 200>>}
FsPaletteColours == {<<255, 0, 0>>, <<0, 0, 255>>}
FsImages(width, height) ==
    [1..height -> [1..width -> FsPixelColours]]
        \cup [1..height -> [1..width -> FsPaletteColours]]

FsInit ==
    /\ fs_width \in 0..MaxW
    /\ fs_height \in 0..MaxH
    /\ fs_width * fs_height <= MaxPixels
    /\ fs_img \in FsImages(fs_width, fs_height)
    /\ fs_palette \in SeqsUpTo(FsPaletteColours, MaxPalLen) \ {<<>>}
    /\ fs_use_dither \in BOOLEAN
    /\ fs_pc = "entry"
    /\ fs_f = <<>>
    /\ fs_out = <<>>
    /\ fs_row = <<>>
    /\ fs_i = 0
    /\ fs_err = <<0, 0, 0>>
    /\ KmIdle /\ GdIdle /\ SpIdle /\ PsIdle /\ RcIdle /\ NrIdle /\ ExIdle
    /\ SvIdle

(* Lines 89-91: the accumulators and the output grid are set up. *)
FsEnter ==
    /\ fs_pc = "entry"
    /\ fs_use_dither
    /\ fs_f' = [y \in 1..fs_height |-> [x \in 1..fs_width |-> [c \in 1..3 |->
                   fs_img[y][x][c] * FsDen(fs_width, fs_height)]]]
    /\ fs_out' = OutGrid(fs_width, fs_height)
    /\ fs_pc' = "loop"
    /\ UNCHANGED <<fs_img, fs_width, fs_height, fs_palette, fs_use_dither,
                   fs_row, fs_i, fs_err>>
    /\ FsFrame

(* Lines 93-121: the next pixel in row-major order. *)
FsPixel ==
    /\ fs_pc = "loop"
    /\ fs_i < fs_width * fs_height
    /\ LET x == fs_i % fs_width
           y == fs_i \div fs_width
           step == DitherPixel(fs_f, fs_palette, x, y, fs_width, fs_height)
       IN  /\ fs_out' = [fs_out EXCEPT ![y + 1][x + 1] = step.pixel]
           /\ fs_err' = step.err
           /\ fs_f' = step.f
    /\ fs_i' = fs_i + 1
    /\ UNCHANGED <<fs_img, fs_width, fs_height, fs_palette, fs_use_dither,
                   fs_pc, fs_row>>
    /\ FsFrame

(* Line 122. *)
FsReturn ==
    /\ fs_pc = "loop"
    /\ fs_i >= fs_width * fs_height
    /\ fs_pc' = "done"
    /\ UNCHANGED <<fs_img, fs_width, fs_height, fs_palette, fs_use_dither,
                   fs_f, fs_out, fs_row, fs_i, fs_err>>
    /\ FsFrame

(* Line 176: out_rgb_2d = []. *)
DirectEnter ==
    /\ fs_pc = "entry"
    /\ ~fs_use_dither
    /\ fs_out' = <<>>
    /\ fs_row' = <<>>
    /\ fs_pc' = "rows"
    /\ UNCHANGED <<fs_img, fs_width, fs_height, fs_palette, fs_use_dither,
                   fs_f, fs_i, fs_err>>
    /\ FsFrame

(* Lines 179-182: one pixel of the current row. *)
DirectPixel ==
    /\ fs_pc = "rows"
    /\ Len(fs_out) < fs_height
    /\ Len(fs_row) < fs_width
    /\ LET rgb == fs_img[Len(fs_out) + 1][Len(fs_row) + 1]
           idx == nearest_palette_index(rgb[1], rgb[2], rgb[3], fs_palette)
       IN  fs_row' = Append(fs_row, fs_palette[idx + 1])
    /\ fs_i' = fs_i + 1
    /\ UNCHANGED <<fs_img, fs_width, fs_height, fs_palette, fs_use_dither,
                   fs_pc, fs_f, fs_out, fs_err>>
    /\ FsFrame

(* Line 183 and the next "row = []" of line 178. *)
DirectRowEnd ==
    /\ fs_pc = "rows"
    /\ Len(fs_out) < fs_height
    /\ Len(fs_row) >= fs_width
    /\ fs_out' = Append(fs_out, fs_row)
    /\ fs_row' = <<>>
    /\ UNCHANGED <<fs_img, fs_width, fs_height, fs_palette, fs_use_dither,
                   fs_pc, fs_f, fs_i, fs_err>>
    /\ FsFrame

(* The loop over y has ended. *)
DirectDone ==
    /\ fs_pc = "rows"
    /\ Len(fs_out) >= fs_height
    /\ fs_pc' = "done"
    /\ UNCHANGED <<fs_img, fs_width, fs_height, fs_palette, fs_use_dither,
                   fs_f, fs_out, fs_row, fs_i, fs_err>>
    /\ FsFrame

FsNext ==
    \/ FsEnter \/ FsPixel \/ FsReturn
    \/ DirectEnter \/ DirectPixel \/ DirectRowEnd \/ DirectDone

SpecDither == FsInit /\ [][FsNext]_vars

-----------------------------------------------------------------------------
(* Claims about the ditherer (checked under SpecDither).                   *)

PaletteEntries == {fs_palette[i] : i \in 1..Len(fs_palette)}

\* C5: every pixel written by floyd_steinberg_dither, and every pixel
\* written by the direct nearest mapping, is exactly one entry of the
\* palette, for every grid size and every non-empty palette.
C5_OutputInPalette ==
    /\ (fs_use_dither /\ fs_pc \in {"loop", "done"}) =>
           \A y \in 1..fs_height : \A x \in 1..fs_width :
               ((y - 1) * fs_width + (x - 1) < fs_i) => fs_out[y][x] \in PaletteEntries
    /\ (~fs_use_dither /\ fs_pc \in {"rows", "done"}) =>
           /\ \A y \in 1..Len(fs_out) : \A x \in 1..Len(fs_out[y]) :
                  fs_out[y][x] \in PaletteEntries
           /\ \A x \in 1..Len(fs_row) : fs_row[x] \in PaletteEntries
    /\ fs_pc = "done" =>
           /\ Len(fs_out) = fs_height
           /\ \A y \in 1..fs_height : Len(fs_out[y]) = fs_width

\* C5 witness: a dithered 3 x 2 grid is complete and one of its pixels
\* differs from the input pixel at the same place.
C5_Witness ==
    /\ fs_pc = "done" /\ fs_use_dither
    /\ fs_width = 3 /\ fs_height = 2
    /\ \E y \in 1..2 : \E x \in 1..3 : fs_out[y][x] # fs_img[y][x]

(* The share, in sixteenths, that the claim gives pixel (tx, ty) of the
   error of pixel (x, y): the in-bounds members of right 7, below 5,
   below-left 3, below-right 1. *)
C6_Weight(x, y, tx, ty) ==
    IF tx < 0 \/ tx >= fs_width \/ ty < 0 \/ ty >= fs_height THEN 0
    ELSE IF tx = x + 1 /\ ty = y THEN 7
    ELSE IF tx = x /\ ty = y + 1 THEN 5
    ELSE IF tx = x - 1 /\ ty = y + 1 THEN 3
    ELSE IF tx = x + 1 /\ ty = y + 1 THEN 1
    ELSE 0

(* The total the claim lists for the position of pixel (x, y). *)
C6_Total(x, y) ==
    IF y + 1 < fs_height
    THEN IF x - 1 >= 0 /\ x + 1 < fs_width THEN 16
         ELSE IF fs_width > 1 /\ x = 0 THEN 13
         ELSE IF fs_width > 1 /\ x = fs_width - 1 THEN 8
         ELSE 5
    ELSE IF x + 1 < fs_width THEN 7 ELSE 0

\* C6: when floyd_steinberg_dither processes pixel (x, y), every accumulator
\* (tx, ty) grows by exactly weight/16 of the pixel's error, the weight being
\* 7, 5, 3, 1 for the in-bounds right, below, below-left and below-right
\* neighbour and 0 for every other pixel (nothing wraps around, nothing is
\* redistributed); the weights add up to 16 for an interior pixel, 13 in the
\* first column and 8 in the last column of a non-last row (width > 1), 7 in
\* the last row except its last pixel and 0 for the bottom-right pixel.
C6_ErrorShares ==
    [][(fs_pc = "loop" /\ fs_i' = fs_i + 1) =>
         LET x == fs_i % fs_width
             y == fs_i \div fs_width
         IN  /\ \A ty \in 0..(fs_height - 1) : \A tx \in 0..(fs_width - 1) :
                   \A c \in 1..3 :
                       /\ C6_Weight(x, y, tx, ty) > 0 => fs_err'[c] % 16 = 0
                       /\ fs_f'[ty + 1][tx + 1][c] - fs_f[ty + 1][tx + 1][c]
                              = C6_Weight(x, y, tx, ty) * (fs_err'[c] \div 16)
             /\ SumSeq([n \in 1..(fs_width * fs_height) |->
                    C6_Weight(x, y, (n - 1) % fs_width, (n - 1) \div fs_width)])
                    = C6_Total(x, y)
      ]_vars

\* C6 witness: in a 3 x 2 grid the pixel (1, 0), whose four neighbours are
\* all inside the grid, has just been processed with a non-zero error.
C6_Witness ==
    /\ fs_pc = "loop" /\ fs_width = 3 /\ fs_height = 2
    /\ fs_i = 2
    /\ fs_err[1] # 0

-----------------------------------------------------------------------------
(* mesh_split_by_color (export_4color_3mf.py 243-313).                     *)

(* sorted(S) for a finite set of integers. *)
RECURSIVE SortSet(_)
SortSet(S) ==
    IF S = {} THEN <<>>
    ELSE LET m == CHOOSE x \in S : \A z \in S : x <= z
         IN  <<m>> \o SortSet(S \ {m})

(* Line 260: the colour index of face face_idx (0-based). *)
ColorIdx(assignments, face_idx) ==
    IF face_idx < Len(assignments) THEN assignments[face_idx + 1] ELSE 0

(* Lines 257-262: groups[color_idx].append(vert_indices) for the faces
   face_idx, face_idx + 1, ...; a new key is added at the end. *)
RECURSIVE GroupFaces(_, _, _, _)
GroupFaces(faces, assignments, face_idx, groups) ==
    IF face_idx >= Len(faces) THEN groups
    ELSE LET c == ColorIdx(assignments, face_idx)
             hit == {g \in 1..Len(groups) : groups[g].color_idx = c}
             next == IF hit = {}
                     THEN Append(groups, [color_idx |-> c,
                                          faces |-> <<faces[face_idx + 1]>>])
                     ELSE [g \in 1..Len(groups) |->
                              IF g \in hit
                              THEN [groups[g] EXCEPT
                                       !.faces = Append(@, faces[face_idx + 1])]
                              ELSE groups[g]]
         IN  GroupFaces(faces, assignments, face_idx + 1, next)

(* Lines 275-277: the global vertices the faces of a group use. *)
AllVerts(face_vert_lists) ==
    UNION {{face_vert_lists[f][c] : c \in 1..Len(face_vert_lists[f])} :
               f \in 1..Len(face_vert_lists)}

(* Line 278: old_to_new[v] for a vertex v of sorted(all_verts). *)
OldToNew(sorted, v) == (CHOOSE i \in 1..Len(sorted) : sorted[i] = v) - 1

(* Mutant of RemapFace: the faces keep their global vertex indices. *)
RemapFaceGlobal(fv, sorted) == fv

(* Line 282: tuple(old_to_new[v] for v in fv). *)
RemapFace(fv, sorted) == [c \in 1..Len(fv) |-> OldToNew(sorted, fv[c])]

(* Mutant of BuildObject: all vertex positions of the mesh are copied, not
   only those of sorted(all_verts). *)
BuildObjectAllVerts(group, co) ==
    LET sorted == SortSet(AllVerts(group.faces))
    IN  [color_idx |-> group.color_idx,
         old |-> sorted,
         verts |-> [i \in 1..Len(sorted) |-> co[i]],
         faces |-> [f \in 1..Len(group.faces) |-> RemapFace(group.faces[f], sorted)]]

(* Lines 275-293: the mesh and the object built for one group. *)
BuildObject(group, co) ==
    LET sorted == SortSet(AllVerts(group.faces))
    IN  [color_idx |-> group.color_idx,
         old |-> sorted,
         verts |-> [i \in 1..Len(sorted) |-> co[sorted[i] + 1]],
         faces |-> [f \in 1..Len(group.faces) |-> RemapFace(group.faces[f], sorted)]]

(* Line 310: new_obj.data.materials.append(mat). *)
WithMaterial(built, mat_name) ==
    [color_idx |-> built.color_idx, old |-> built.old, verts |-> built.verts,
     faces |-> built.faces, material |-> mat_name]

(* palette[color_idx] of line 296 raises IndexError outside -len..len-1. *)
IndexOk(seq, i) == -Len(seq) <= i /\ i < Len(seq)
PyIndex(seq, i) == IF i >= 0 THEN seq[i + 1] ELSE seq[Len(seq) + i + 1]

(* f"Color_{color_idx}_{obj.name}" (line 297). *)
MatName(color_idx, name) == <<"Color", color_idx, name>>

(* Lines 298-309: bpy.data.materials.get(mat_name), or a new material whose
   Base Color is the palette colour. *)
GetOrNewMaterial(materials, mat_name, color) ==
    IF \E m \in 1..Len(materials) : materials[m].name = mat_name
    THEN materials
    ELSE Append(materials, [name |-> mat_name, base_color |-> color])

BaseColor(materials, mat_name) ==
    (CHOOSE m \in {materials[i] : i \in 1..Len(materials)} : m.name = mat_name).base_color

(* Inputs: a triangle strip and a fan with reversed corners, n faces each;
   both have one vertex more than their faces use. *)
MeshFaces(kind, n) ==
    [i \in 1..n |->
        IF kind = "strip"
        THEN IF i % 2 = 1 THEN <<i - 1, i, i + 1>> ELSE <<i, i - 1, i + 1>>
        ELSE <<i + 1, i, 0>>]
MeshCo(n) == [v \in 1..(n + 3) |-> <<v - 1, ((v - 1) * (v - 1)) % 3, 1>>]

SplitPalettes == {<<<<18, 4, 4>>, <<4, 10, 18>>>>, <<<<10, 10, 10>>, <<2, 2, 2>>>>}

SpInit ==
    /\ sp_name = "Cube"
    /\ \E n \in 0..MaxFaces : \E kind \in {"strip", "fan"} :
          /\ sp_faces = MeshFaces(kind, n)
          /\ sp_co = MeshCo(n)
    /\ sp_palette \in SplitPalettes
    /\ \E m \in {Len(sp_faces) - 1, Len(sp_faces)} :
          /\ m >= 0
          /\ sp_assignments \in [1..m -> -1..Len(sp_palette)]
    /\ sp_pc = "entry"
    /\ sp_groups = <<>>
    /\ sp_gi = 0
    /\ sp_linked = <<>>
    /\ sp_new_objects = <<>>
    /\ sp_runs = 1
    /\ bpy_materials = <<>>
    /\ KmIdle /\ GdIdle /\ FsIdle /\ PsIdle /\ RcIdle /\ NrIdle /\ ExIdle
    /\ SvIdle

(* Lines 245-264: the faces are grouped by colour index. *)
SpGroup ==
    /\ sp_pc = "entry"
    /\ sp_groups' = GroupFaces(sp_faces, sp_assignments, 0, <<>>)
    /\ sp_gi' = 0
    /\ sp_pc' = "build"
    /\ UNCHANGED <<sp_name, sp_faces, sp_co, sp_assignments, sp_palette,
                   sp_linked, sp_new_objects, sp_runs, bpy_materials>>
    /\ SpFrame

(* Lines 268-311: one pass of the loop over groups.items(). *)
SpBuild ==
    /\ sp_pc = "build"
    /\ sp_gi < Len(sp_groups)
    /\ LET group == sp_groups[sp_gi + 1]
           built == BuildObject(group, sp_co)
           mat_name == MatName(group.color_idx, sp_name)
       IN  /\ sp_linked' = Append(sp_linked, built)
           /\ IF IndexOk(sp_palette, group.color_idx)
              THEN /\ bpy_materials' =
                          GetOrNewMaterial(bpy_materials, mat_name,
                                           PyIndex(sp_palette, group.color_idx))
                   /\ sp_new_objects' =
                          Append(sp_new_objects, WithMaterial(built, mat_name))
                   /\ sp_gi' = sp_gi + 1
                   /\ sp_pc' = "build"
              ELSE /\ sp_pc' = "raised"
                   /\ UNCHANGED <<bpy_materials, sp_new_objects, sp_gi>>
    /\ UNCHANGED <<sp_name, sp_faces, sp_co, sp_assignments, sp_palette,
                   sp_groups, sp_runs>>
    /\ SpFrame

(* Line 313. *)
SpReturn ==
    /\ sp_pc = "build"
    /\ sp_gi >= Len(sp_groups)
    /\ sp_pc' = "done"
    /\ UNCHANGED <<sp_name, sp_faces, sp_co, sp_assignments, sp_palette,
                   sp_groups, sp_gi, sp_linked, sp_new_objects, sp_runs,
                   bpy_materials>>
    /\ SpFrame

(* The script is run again on the same object with another palette;
   bpy.data.materials is what the earlier run left. *)
SpCallAgain ==
    /\ sp_pc = "done"
    /\ sp_runs < MaxRuns
    /\ sp_palette' \in SplitPalettes
    /\ sp_pc' = "entry"
    /\ sp_groups' = <<>>
    /\ sp_gi' = 0
    /\ sp_linked' = <<>>
    /\ sp_new_objects' = <<>>
    /\ sp_runs' = sp_runs + 1
    /\ UNCHANGED <<sp_name, sp_faces, sp_co, sp_assignments, bpy_materials>>
    /\ SpFrame

SpNext == SpGroup \/ SpBuild \/ SpReturn \/ SpCallAgain

SpecSplit == SpInit /\ [][SpNext]_vars

-----------------------------------------------------------------------------
(* Claims about the surface partitioner (checked under SpecSplit).         *)

(* The cluster ids that have at least one face; a face without an entry in
   the assignment counts for cluster 0. *)
C10_UsedClusters ==
    {IF i <= Len(sp_assignments) THEN sp_assignments[i] ELSE 0 :
         i \in 1..Len(sp_faces)}

\* C10: when mesh_split_by_color returns, new_objects holds exactly one
\* sub-mesh per cluster id that has at least one face and none for any
\* other id, and in every sub-mesh with m vertices the vertex indices used
\* by its faces are exactly 0..m-1; 4 faces with assignment [0,1,0,1] give
\* exactly 2 sub-meshes.
C10_OneSubMeshPerCluster ==
    sp_pc = "done" =>
        /\ {sp_new_objects[o].color_idx : o \in 1..Len(sp_new_objects)}
               = C10_UsedClusters
        /\ \A o1, o2 \in 1..Len(sp_new_objects) :
               sp_new_objects[o1].color_idx = sp_new_objects[o2].color_idx => o1 = o2
        /\ \A o \in 1..Len(sp_new_objects) :
               LET ob == sp_new_objects[o]
               IN  {ob.faces[f][c] : f \in 1..Len(ob.faces), c \in 1..3}
                       = 0..(Len(ob.verts) - 1)
        /\ (Len(sp_faces) = 4 /\ sp_assignments = <<0, 1, 0, 1>>)
               => Len(sp_new_objects) = 2

\* C10 witness: 4 faces with assignment [0,1,0,1] were split into 2
\* sub-meshes.
C10_Witness ==
    /\ sp_pc = "done"
    /\ Len(sp_faces) = 4 /\ sp_assignments = <<0, 1, 0, 1>>
    /\ Len(sp_new_objects) = 2

\* C11 (as claimed): an assignment entry outside [0, k) never makes
\* mesh_split_by_color fail, its face is put into cluster 0, and no
\* sub-mesh is created (or linked to the scene) for an out-of-range id.
C11_OutOfRangeClampedToZero ==
    /\ sp_pc # "raised"
    /\ \A o \in 1..Len(sp_linked) :
           sp_linked[o].color_idx \in 0..(Len(sp_palette) - 1)
    /\ sp_pc = "done" =>
           \A o \in 1..Len(sp_new_objects) :
               sp_new_objects[o].color_idx = 0 =>
                   Len(sp_new_objects[o].faces) =
                       Cardinality({i \in 1..Len(sp_faces) :
                           \/ i > Len(sp_assignments)
                           \/ sp_assignments[i] \notin 1..(Len(sp_palette) - 1)})

\* C12 (as claimed): after any sequence of invocations, the material of
\* every sub-mesh an invocation produced has as its Base Color exactly
\* palette[c] of that invocation, c being the sub-mesh's cluster id.
C12_MaterialIsPaletteColour ==
    \A o \in 1..Len(sp_new_objects) :
        LET ob == sp_new_objects[o]
        IN  BaseColor(bpy_materials, ob.material) = PyIndex(sp_palette, ob.color_idx)

-----------------------------------------------------------------------------
(* process_scene (export_4color_3mf.py 363-): what is done for one object  *)
(* of candidates, in either EXPORT_MODE.                                   *)

(* The for loop over range(max_iter) (export 199-222, png 46-64). *)
RECURSIVE KMeansLoop(_, _, _, _, _)
KMeansLoop(samples, k, iterations, centroids, assignments) ==
    IF iterations <= 0
    THEN [centroids |-> centroids, assignments |-> assignments]
    ELSE CHOOSE r \in
             {KMeansLoop(samples, k, iterations - 1, ca[1], ca[2]) :
                 ca \in {LET a == AssignPass(samples, centroids, k)
                         IN  <<UpdateCentroids(samples, a, centroids, k), a>>}} :
             TRUE

(* export_4color_3mf.py 177-224 as a function of its arguments; the
   centroids of the palette are <<sum, count>> pairs after the loop and
   plain colours in the short branch. *)
quantize_colors_kmeans(face_colors, k, max_iter) ==
    IF Len(face_colors) < k
    THEN [short |-> TRUE,
          palette |-> QuantizeShort(face_colors, k).palette,
          assignments |-> QuantizeShort(face_colors, k).assignments]
    ELSE CHOOSE q \in
             {[short |-> FALSE, palette |-> r.centroids,
               assignments |-> r.assignments] :
                 r \in {KMeansLoop(face_colors, k, max_iter, seeds,
                                   [i \in 1..Len(face_colors) |-> 0]) :
                            seeds \in {SeedCentroids(face_colors, k)}}} :
             TRUE

(* reduce_color_png.py 21-69 as a function of its arguments, k >= 1. *)
kmeans_palette(pixels_rgb, k, max_iter) ==
    IF Len(pixels_rgb) < k
    THEN PadPalettePng(pixels_rgb, k)
    ELSE CHOOSE palette \in
             {[j \in 1..k |-> CentroidToPixel(r.centroids[j])] :
                 r \in {KMeansLoop(pixels_rgb, k, max_iter, seeds,
                                   [i \in 1..Len(pixels_rgb) |-> 0]) :
                            seeds \in {SeedCentroids(pixels_rgb, k)}}} :
             TRUE

(* A centroid sum/count that is a whole number of units in every channel,
   and its value. *)
ExactCentroid(cen) == \A t \in 1..3 : cen[1][t] % cen[2] = 0
CentroidColour(cen) == [t \in 1..3 |-> cen[1][t] \div cen[2]]

(* The palette of quantize_colors_kmeans as a sequence of colours. *)
PaletteColours(q) ==
    IF q.short THEN q.palette
    ELSE [j \in 1..Len(q.palette) |-> CentroidColour(q.palette[j])]

(* Bounds of the scene: NUM_COLORS and the faces of the object. *)
MaxNumColors == 5
MaxSceneFaces == 5

(* Inputs: faces painted white or black, and the gray (0.5, 0.5, 0.5) that
   get_face_colors_from_mesh gives an unpainted face; only the meshes whose
   centroids are whole multiples of 0.05. *)
SceneColours == {<<20, 20, 20>>, <<0, 0, 0>>, <<10, 10, 10>>}

PsInit ==
    /\ ps_num_colors \in 2..MaxNumColors
    /\ ps_iterations \in 1..MaxIter
    /\ ps_mode \in {"split", "vertex_color_only"}
    /\ ps_face_colors \in SeqsUpTo(SceneColours, MaxSceneFaces)
    /\ \A q \in {quantize_colors_kmeans(ps_face_colors, ps_num_colors,
                                         ps_iterations)} :
           IF q.short THEN TRUE
           ELSE \A j \in 1..Len(q.palette) : ExactCentroid(q.palette[j])
    /\ ps_pc = "entry"
    /\ ps_palette = <<>>
    /\ ps_assignments = <<>>
    /\ ps_face_out = <<>>
    /\ KmIdle /\ GdIdle /\ FsIdle /\ SpIdle /\ RcIdle /\ NrIdle /\ ExIdle
    /\ SvIdle

(* Lines 430-431 and 459-460: "if not face_colors: continue". *)
PsSkip ==
    /\ ps_pc = "entry"
    /\ ps_face_colors = <<>>
    /\ ps_pc' = "done"
    /\ UNCHANGED <<ps_num_colors, ps_iterations, ps_mode, ps_face_colors,
                   ps_palette, ps_assignments, ps_face_out>>
    /\ PsFrame

(* Lines 432 and 461. *)
PsQuantize ==
    /\ ps_pc = "entry"
    /\ ps_face_colors # <<>>
    /\ \E q \in {quantize_colors_kmeans(ps_face_colors, ps_num_colors,
                                         ps_iterations)} :
           /\ ps_palette' = PaletteColours(q)
           /\ ps_assignments' = q.assignments
    /\ ps_pc' = "quantized"
    /\ UNCHANGED <<ps_num_colors, ps_iterations, ps_mode, ps_face_colors,
                   ps_face_out>>
    /\ PsFrame

(* len(set(assignments)). *)
DistinctValues(assignments) ==
    Cardinality({assignments[i] : i \in 1..Len(assignments)})

(* Mutant of RoundRobin: the faces are spread over 4 clusters, whatever
   NUM_COLORS is. *)
RoundRobinFour(n, num_colors) == [i \in 1..n |-> (i - 1) % 4]

(* Lines 434 and 463: [i % NUM_COLORS for i in range(len(assignments))]. *)
RoundRobin(n, num_colors) == [i \in 1..n |-> (i - 1) % num_colors]

(* Lines 433-434 and 462-463: a single cluster is spread round-robin. *)
PsRoundRobin ==
    /\ ps_pc = "quantized"
    /\ DistinctValues(ps_assignments) < 2
    /\ ps_assignments' = RoundRobin(Len(ps_assignments), ps_num_colors)
    /\ ps_pc' = "assigned"
    /\ UNCHANGED <<ps_num_colors, ps_iterations, ps_mode, ps_face_colors,
                   ps_palette, ps_face_out>>
    /\ PsFrame

PsKeepAssignments ==
    /\ ps_pc = "quantized"
    /\ DistinctValues(ps_assignments) >= 2
    /\ ps_pc' = "assigned"
    /\ UNCHANGED <<ps_num_colors, ps_iterations, ps_mode, ps_face_colors,
                   ps_palette, ps_assignments, ps_face_out>>
    /\ PsFrame

(* Lines 436 and 465. *)
PsGuard ==
    /\ ps_pc = "assigned"
    /\ ps_palette' = EnsureDistinctPalette(ps_palette, ps_num_colors)
    /\ ps_pc' = "guarded"
    /\ UNCHANGED <<ps_num_colors, ps_iterations, ps_mode, ps_face_colors,
                   ps_assignments, ps_face_out>>
    /\ PsFrame

(* Line 466: mesh_split_by_color; palette[color_idx] (line 296) raises
   IndexError for a group whose index the palette does not have. *)
PsSplit ==
    /\ ps_pc = "guarded"
    /\ ps_mode = "split"
    /\ LET n == Len(ps_face_colors)
           idx == [f \in 1..n |-> ColorIdx(ps_assignments, f - 1)]
       IN  IF \A f \in 1..n : IndexOk(ps_palette, idx[f])
           THEN /\ ps_face_out' = [f \in 1..n |-> PyIndex(ps_palette, idx[f])]
                /\ ps_pc' = "done"
           ELSE /\ ps_pc' = "raised"
                /\ UNCHANGED ps_face_out
    /\ UNCHANGED <<ps_num_colors, ps_iterations, ps_mode, ps_face_colors,
                   ps_palette, ps_assignments>>
    /\ PsFrame

(* Line 437: apply_quantized_vertex_colors; lines 352-353 give a face whose
   index is not below len(palette) the gray (0.5, 0.5, 0.5). *)
PsApply ==
    /\ ps_pc = "guarded"
    /\ ps_mode = "vertex_color_only"
    /\ ps_face_out' =
           [f \in 1..Len(ps_face_colors) |->
               LET color_idx == ColorIdx(ps_assignments, f - 1)
               IN  IF color_idx < Len(ps_palette)
                   THEN PyIndex(ps_palette, color_idx)
                   ELSE Gray(10)]
    /\ ps_pc' = "done"
    /\ UNCHANGED <<ps_num_colors, ps_iterations, ps_mode, ps_face_colors,
                   ps_palette, ps_assignments>>
    /\ PsFrame

PsNext ==
    \/ PsSkip \/ PsQuantize \/ PsRoundRobin \/ PsKeepAssignments
    \/ PsGuard \/ PsSplit \/ PsApply

SpecScene == PsInit /\ [][PsNext]_vars

-----------------------------------------------------------------------------
(* Claims about process_scene (checked under SpecScene).                   *)

\* C13 (as claimed): for every NUM_COLORS >= 2 and every mesh, every
\* assignment value handed to mesh_split_by_color or to
\* apply_quantized_vertex_colors is a valid index into the palette handed
\* over with it, and the callee does not fail on it.
C13_AssignmentsIndexPalette ==
    /\ ps_pc = "guarded" =>
           \A i \in 1..Len(ps_assignments) :
               0 <= ps_assignments[i] /\ ps_assignments[i] < Len(ps_palette)
    /\ ps_pc # "raised"

-----------------------------------------------------------------------------
(* Further claims about the ditherer (checked under SpecDither).           *)

(* Every pixel of the input field is an entry of the palette. *)
C14_AllPixelsInPalette ==
    \A y \in 1..fs_height : \A x \in 1..fs_width : fs_img[y][x] \in PaletteEntries

(* The 2 x 2 field of the example. *)
C14_Example ==
    <<<<<<255, 0, 0>>, <<255, 0, 0>>>>, <<<<0, 0, 255>>, <<0, 0, 255>>>>>>

\* C14: if every input pixel equals a palette entry, floyd_steinberg_dither
\* computes a zero error at every pixel, leaves every accumulator equal to
\* the input pixel, and returns the input grid, as the direct mapping does;
\* for the 2 x 2 field red, red, blue, blue, kmeans_palette with k = 2 and
\* 20 iterations returns the palette [red, blue] and the image is unchanged.
C14_ExactInputUnchanged ==
    C14_AllPixelsInPalette =>
        /\ (fs_use_dither /\ fs_pc \in {"loop", "done"}) =>
               /\ fs_err = <<0, 0, 0>>
               /\ \A y \in 1..fs_height : \A x \in 1..fs_width :
                      /\ \A c \in 1..3 :
                             fs_f[y][x][c] = fs_img[y][x][c] * FsDen(fs_width, fs_height)
                      /\ (y - 1) * fs_width + (x - 1) < fs_i => fs_out[y][x] = fs_img[y][x]
        /\ fs_pc = "done" => fs_out = fs_img
        /\ (fs_pc = "done" /\ fs_img = C14_Example) =>
               /\ kmeans_palette(C14_Example[1] \o C14_Example[2], 2, 20)
                      = <<<<255, 0, 0>>, <<0, 0, 255>>>>
               /\ fs_palette = <<<<255, 0, 0>>, <<0, 0, 255>>>> => fs_out = C14_Example

\* C14 witness: the 2 x 2 field of the example has been dithered with the
\* palette [red, blue].
C14_Witness ==
    /\ fs_pc = "done" /\ fs_use_dither
    /\ fs_img = C14_Example
    /\ fs_palette = <<<<255, 0, 0>>, <<0, 0, 255>>>>
    /\ fs_out = C14_Example

\* C17: floyd_steinberg_dither never fails for any width >= 0, any
\* height >= 0 and any palette of at least 2 entries: while it runs, every
\* index it uses (the pixel, the palette entry, the neighbours that receive
\* a share) is in range; it returns a grid of exactly height rows of exactly
\* width pixels, which holds no pixel when width = 0 or height = 0.
C17_DitherNeverFails ==
    (fs_use_dither /\ Len(fs_palette) >= 2) =>
        /\ fs_pc \in {"entry", "loop", "done"}
        /\ fs_pc \in {"loop", "done"} =>
               /\ fs_i <= fs_width * fs_height
               /\ Len(fs_f) = fs_height /\ Len(fs_out) = fs_height
               /\ \A y \in 1..fs_height :
                      Len(fs_f[y]) = fs_width /\ Len(fs_out[y]) = fs_width
        /\ (fs_pc = "loop" /\ fs_i < fs_width * fs_height) =>
               LET x == fs_i % fs_width
                   y == fs_i \div fs_width
                   den == FsDen(fs_width, fs_height)
                   acc == fs_f[y + 1][x + 1]
                   idx == nearest_palette_index(ClampRound(acc[1], den),
                                                ClampRound(acc[2], den),
                                                ClampRound(acc[3], den),
                                                fs_palette)
               IN  /\ x \in 0..(fs_width - 1) /\ y \in 0..(fs_height - 1)
                   /\ idx \in 0..(Len(fs_palette) - 1)
                   /\ \A t \in ShareTargets(x, y, fs_width, fs_height) :
                          t[1] \in 0..(fs_width - 1) /\ t[2] \in 0..(fs_height - 1)
        /\ fs_pc = "done" =>
               /\ fs_i = fs_width * fs_height
               /\ (fs_width = 0 \/ fs_height = 0) =>
                      \A y \in 1..Len(fs_out) : fs_out[y] = <<>>

\* C17 witness: the ditherer has returned for a grid of width 0 and
\* height 2 and a palette of 2 entries: two rows without pixels.
C17_Witness ==
    /\ fs_pc = "done" /\ fs_use_dither
    /\ fs_width = 0 /\ fs_height = 2
    /\ Len(fs_palette) = 2
    /\ fs_out = <<<<>>, <<>>>>

(* The pixel the ditherer handled last, 0-based, and its accumulator. *)
LastX == (fs_i - 1) % fs_width
LastY == (fs_i - 1) \div fs_width
LastAcc == fs_f[LastY + 1][LastX + 1]
LastOut == fs_out[LastY + 1][LastX + 1]

\* C20 (as claimed): the error propagated from a pixel is, per channel, the
\* accumulator rounded and clamped to 0..255 (the value looked up in the
\* palette) minus the chosen palette entry.
C20_ErrorFromClamped ==
    (fs_use_dither /\ fs_pc = "loop" /\ fs_i >= 1) =>
        \A c \in 1..3 :
            fs_err[c] = (ClampRound(LastAcc[c], FsDen(fs_width, fs_height))
                            - LastOut[c]) * FsDen(fs_width, fs_height)

\* C20 (amended): the error propagated from a pixel is, per channel, the
\* accumulator itself, neither rounded nor clamped, minus the chosen palette
\* entry; the rounded and clamped value is only used for the palette lookup.
C20_ErrorFromAccumulator ==
    (fs_use_dither /\ fs_pc = "loop" /\ fs_i >= 1) =>
        \A c \in 1..3 :
            fs_err[c] = LastAcc[c] - LastOut[c] * FsDen(fs_width, fs_height)

\* C20 witness: a pixel has been handled whose accumulator differed from its
\* rounded and clamped value, and its error was taken from the accumulator.
C20_Witness ==
    /\ fs_use_dither /\ fs_pc = "loop" /\ fs_i >= 1
    /\ \E c \in 1..3 :
           /\ ClampRound(LastAcc[c], FsDen(fs_width, fs_height))
                  * FsDen(fs_width, fs_height) # LastAcc[c]
           /\ fs_err[c] = LastAcc[c] - LastOut[c] * FsDen(fs_width, fs_height)

-----------------------------------------------------------------------------
(* Further claims about the k-means palette builder (checked under SpecKM). *)

-----------------------------------------------------------------------------
(* The PNG pipeline from its entry points: main and reduce_color_png       *)
(* (reduce_color_png.py), REDUCE_COLOR_OT_png.execute and                  *)
(* reduce_color_from_arrays (reduce_color_png_blender.py).  A pixel is     *)
(* <<r, g, b, a>>, each 0..255.                                            *)

(* reduce_color_png.py 154-158: the RGB of the pixels with a >= 128. *)
RECURSIVE OpaqueRgb(_)
OpaqueRgb(pixels) ==
    IF pixels = <<>> THEN <<>>
    ELSE LET px == Head(pixels)
         IN  (IF px[4] < 128 THEN <<>> ELSE <<<<px[1], px[2], px[3]>>>>)
                 \o OpaqueRgb(Tail(pixels))

(* Lines 159-160: all pixels when none is opaque. *)
RgbForPalette(pixels) ==
    IF OpaqueRgb(pixels) = <<>>
    THEN [i \in 1..Len(pixels) |-> <<pixels[i][1], pixels[i][2], pixels[i][3]>>]
    ELSE OpaqueRgb(pixels)

(* Lines 163-165: rgb_for_palette[::step], step = len // max_pixels. *)
SamplePixels(rgb_for_palette, max_pixels_for_palette) ==
    IF Len(rgb_for_palette) > max_pixels_for_palette
    THEN LET step == Len(rgb_for_palette) \div max_pixels_for_palette
             idx == RangeStep(Len(rgb_for_palette), step)
         IN  [i \in 1..Len(idx) |-> rgb_for_palette[idx[i] + 1]]
    ELSE rgb_for_palette

(* Lines 170-171: rgb_2d and alpha_2d. *)
Rgb2d(pixels, width, height) ==
    [y \in 1..height |-> [x \in 1..width |->
        LET px == pixels[(y - 1) * width + x] IN <<px[1], px[2], px[3]>>]]
Alpha2d(pixels, width, height) ==
    [y \in 1..height |-> [x \in 1..width |-> pixels[(y - 1) * width + x][4]]]

(* reduce_color_png.py 84-122: the loops from pixel i on. *)
RECURSIVE DitherFrom(_, _, _, _, _, _)
DitherFrom(f, out, palette, i, width, height) ==
    IF i >= width * height THEN out
    ELSE LET x == i % width
             y == i \div width
         IN  CHOOSE r \in
                 {DitherFrom(step.f, [out EXCEPT ![y + 1][x + 1] = step.pixel],
                             palette, i + 1, width, height) :
                     step \in {DitherPixel(f, palette, x, y, width, height)}} :
                 TRUE

floyd_steinberg_dither(img_rgb, palette, width, height) ==
    DitherFrom([y \in 1..height |-> [x \in 1..width |-> [c \in 1..3 |->
                   img_rgb[y][x][c] * FsDen(width, height)]]],
               OutGrid(width, height),
               palette, 0, width, height)

(* Lines 176-183: the direct nearest mapping. *)
DirectMap(rgb_2d, palette, width, height) ==
    [y \in 1..height |-> [x \in 1..width |->
        LET rgb == rgb_2d[y][x]
        IN  palette[nearest_palette_index(rgb[1], rgb[2], rgb[3], palette) + 1]]]

(* Mutant of OutAlpha: the output is made opaque. *)
OutAlphaOpaque(alpha_2d, x, y) == ChannelMax

(* Line 187: alpha_2d[y][x] of the output pixel (x, y), 0-based. *)
OutAlpha(alpha_2d, x, y) == alpha_2d[y + 1][x + 1]

(* Lines 186-190: the RGBA pixels handed to putdata, row-major. *)
OutPixels(out_rgb_2d, alpha_2d, width, height) ==
    [i \in 1..(width * height) |->
        LET x == (i - 1) % width
            y == (i - 1) \div width
            rgb == out_rgb_2d[y + 1][x + 1]
        IN  <<rgb[1], rgb[2], rgb[3], OutAlpha(alpha_2d, x, y)>>]

(* reduce_color_png_blender.py 226-229 and 257-258: the operator reads a
   channel as the float v/255 and takes int(round(raw * 255)); it writes
   the channel a as the float a/255.  Both are given in units of 1/255. *)
ByteOfRaw(v) == RoundHalfEven(v * ChannelMax, ChannelMax)
OperatorPixels(pixels) ==
    [i \in 1..Len(pixels) |-> [c \in 1..4 |-> ByteOfRaw(pixels[i][c])]]

(* Mutant of NumColorsProperty: the property has no bounds. *)
NumColorsUnbounded(v) == v

(* The bounds num_colors and kmeans_iterations are declared with
   (reduce_color_png_blender.py 160-167 and 179-184). *)
NumColorsProperty(v) == Max(2, Min(32, v))
IterationsProperty(v) == Max(5, Min(100, v))

(* The default of max_pixels_for_palette (reduce_color_png_blender.py 114). *)
DefaultMaxPixels == 500000

(* Bounds of the PNG pipeline. *)
MaxRcPixels == 3
MaxSample == 3

(* Inputs: an opaque red pixel and a pixel just below the opacity
   threshold of the palette sampling. *)
RcPixelValues == {<<255, 0, 0, 255>>, <<100, 50, 200, 127>>}

RcInit ==
    /\ rc_entry \in {"main", "reduce_color_png", "operator",
                     "reduce_color_from_arrays"}
    /\ rc_colors \in 0..MaxK
    /\ rc_max_pixels \in IF rc_entry = "operator" THEN {DefaultMaxPixels}
                         ELSE 1..MaxSample
    /\ rc_iterations \in 1..MaxIter
    /\ rc_use_dither \in BOOLEAN
    /\ rc_width \in 1..MaxRcPixels
    /\ rc_height \in 1..MaxRcPixels
    /\ rc_width * rc_height <= MaxRcPixels
    /\ rc_pixels \in [1..(rc_width * rc_height) -> RcPixelValues]
    /\ rc_pc = "entry"
    /\ rc_samples = <<>>
    /\ rc_palette = <<>>
    /\ rc_out = <<>>
    /\ KmIdle /\ GdIdle /\ FsIdle /\ SpIdle /\ PsIdle /\ NrIdle /\ ExIdle
    /\ SvIdle

(* reduce_color_png.py 239-240: parser.error ends the program. *)
RcMainReject ==
    /\ rc_pc = "entry"
    /\ rc_entry = "main"
    /\ rc_colors < 2
    /\ rc_pc' = "rejected"
    /\ UNCHANGED <<rc_entry, rc_colors, rc_max_pixels, rc_iterations,
                   rc_use_dither, rc_width, rc_height, rc_pixels, rc_samples,
                   rc_palette, rc_out>>
    /\ RcFrame

(* reduce_color_png.py 242-249: main calls reduce_color_png. *)
RcMainCall ==
    /\ rc_pc = "entry"
    /\ rc_entry = "main"
    /\ rc_colors >= 2
    /\ rc_pc' = "called"
    /\ UNCHANGED <<rc_entry, rc_colors, rc_max_pixels, rc_iterations,
                   rc_use_dither, rc_width, rc_height, rc_pixels, rc_samples,
                   rc_palette, rc_out>>
    /\ RcFrame

(* reduce_color_png_blender.py 193-244: execute reads the pixels and calls
   reduce_color_from_arrays with the values of its properties. *)
RcOperatorExecute ==
    /\ rc_pc = "entry"
    /\ rc_entry = "operator"
    /\ rc_colors' = NumColorsProperty(rc_colors)
    /\ rc_iterations' = IterationsProperty(rc_iterations)
    /\ rc_pixels' = OperatorPixels(rc_pixels)
    /\ rc_pc' = "called"
    /\ UNCHANGED <<rc_entry, rc_max_pixels, rc_use_dither, rc_width, rc_height,
                   rc_samples, rc_palette, rc_out>>
    /\ RcFrame

(* reduce_color_png.py 150-165, reduce_color_png_blender.py 119-132: the
   samples for the palette; the two functions are also called directly. *)
RcSample ==
    /\ \/ rc_pc = "called"
       \/ /\ rc_pc = "entry"
          /\ rc_entry \in {"reduce_color_png", "reduce_color_from_arrays"}
    /\ rc_samples' = SamplePixels(RgbForPalette(rc_pixels), rc_max_pixels)
    /\ rc_pc' = "sampled"
    /\ UNCHANGED <<rc_entry, rc_colors, rc_max_pixels, rc_iterations,
                   rc_use_dither, rc_width, rc_height, rc_pixels, rc_palette,
                   rc_out>>
    /\ RcFrame

(* reduce_color_png.py 167: kmeans_palette; with k = 0 and at least one
   sample, len(pts) // k of line 37 raises ZeroDivisionError. *)
RcCluster ==
    /\ rc_pc = "sampled"
    /\ IF rc_colors = 0 /\ rc_samples # <<>>
       THEN /\ rc_pc' = "raised"
            /\ UNCHANGED rc_palette
       ELSE /\ rc_palette' = kmeans_palette(rc_samples, rc_colors, rc_iterations)
            /\ rc_pc' = "clustered"
    /\ UNCHANGED <<rc_entry, rc_colors, rc_max_pixels, rc_iterations,
                   rc_use_dither, rc_width, rc_height, rc_pixels, rc_samples,
                   rc_out>>
    /\ RcFrame

(* reduce_color_png.py 169-192, reduce_color_png_blender.py 136-146 and
   253-259: the mapping and the pixels of the output image. *)
RcMap ==
    /\ rc_pc = "clustered"
    /\ \E rgb_2d \in {Rgb2d(rc_pixels, rc_width, rc_height)} :
       \E out_rgb_2d \in
             {IF rc_use_dither
              THEN floyd_steinberg_dither(rgb_2d, rc_palette, rc_width, rc_height)
              ELSE DirectMap(rgb_2d, rc_palette, rc_width, rc_height)} :
          rc_out' = OutPixels(out_rgb_2d,
                              Alpha2d(rc_pixels, rc_width, rc_height),
                              rc_width, rc_height)
    /\ rc_pc' = "saved"
    /\ UNCHANGED <<rc_entry, rc_colors, rc_max_pixels, rc_iterations,
                   rc_use_dither, rc_width, rc_height, rc_pixels, rc_samples,
                   rc_palette>>
    /\ RcFrame

RcNext ==
    \/ RcMainReject \/ RcMainCall \/ RcOperatorExecute
    \/ RcSample \/ RcCluster \/ RcMap

SpecReduce == RcInit /\ [][RcNext]_vars

-----------------------------------------------------------------------------
(* Claims about the PNG pipeline (checked under SpecReduce).               *)

C18_NoEntryPointRejects == rc_pc # "rejected"

\* C18 (amended): of the entry points of the PNG pipeline only main rejects
\* a palette size below 2, and it does so before reduce_color_png is
\* called; the operator never passes a value below 2 on, because its
\* property num_colors is declared with min = 2; reduce_color_png and
\* reduce_color_from_arrays check nothing: with k = 1 they return a
\* one-colour palette, with k = 0 kmeans_palette raises ZeroDivisionError.
C18_OnlyMainRejects ==
    /\ rc_pc = "rejected" => (rc_entry = "main" /\ rc_colors < 2)
    /\ (rc_entry = "main" /\ rc_colors < 2) => rc_pc \in {"entry", "rejected"}
    /\ (rc_entry = "operator" /\ rc_pc # "entry") => rc_colors >= 2
    /\ rc_pc \in {"clustered", "saved"} => Len(rc_palette) = rc_colors
    /\ rc_pc = "raised" =>
           /\ rc_colors = 0
           /\ rc_entry \in {"reduce_color_png", "reduce_color_from_arrays"}

\* C18 witness: main has rejected --colors 1.
C18_Witness ==
    /\ rc_pc = "rejected" /\ rc_entry = "main" /\ rc_colors = 1

\* C19 (as claimed): the number of samples handed to kmeans_palette never
\* exceeds max_pixels_for_palette, for every image and every
\* max_pixels_for_palette >= 1.
C19_SamplesWithinMax ==
    rc_pc \in {"sampled", "clustered", "saved", "raised"} =>
        Len(rc_samples) <= rc_max_pixels

-----------------------------------------------------------------------------
(* Claims about the order of the ditherer's steps (checked under           *)
(* SpecDither).                                                            *)

(* The row-major index of pixel (x, y), both 1-based here. *)
RowMajor(x, y) == (y - 1) * fs_width + (x - 1)

\* C21: floyd_steinberg_dither handles the pixels strictly in row-major
\* order: after i steps exactly the pixels of row-major index below i have
\* their output, the others still hold the initial (0, 0, 0); the step for
\* the pixel of index i writes the output of that pixel only and changes
\* the accumulators of pixels of higher index only, so that the output and
\* the accumulator of a pixel whose output was emitted never change again.
C21_RowMajorNoWriteBack ==
    /\ [](fs_use_dither /\ fs_pc \in {"loop", "done"} =>
             \A y \in 1..fs_height : \A x \in 1..fs_width :
                 IF RowMajor(x, y) < fs_i
                 THEN fs_out[y][x] \in PaletteEntries
                 ELSE fs_out[y][x] = <<0, 0, 0>>)
    /\ [][(fs_use_dither /\ fs_pc = "loop") =>
             /\ fs_i' \in {fs_i, fs_i + 1}
             /\ \A y \in 1..fs_height : \A x \in 1..fs_width :
                   /\ RowMajor(x, y) <= fs_i => fs_f'[y][x] = fs_f[y][x]
                   /\ RowMajor(x, y) # fs_i => fs_out'[y][x] = fs_out[y][x]]_vars

\* C21 witness: in a grid of at least 2 x 2 the second pixel of the second
\* row has been handled with a non-zero error, and the accumulator of the
\* pixel after it has received a share.
C21_Witness ==
    /\ fs_use_dither /\ fs_pc = "loop"
    /\ fs_width >= 3 /\ fs_height >= 2
    /\ fs_i = fs_width + 2
    /\ fs_err # <<0, 0, 0>>
    /\ \E c \in 1..3 :
           fs_f[2][3][c] # fs_img[2][3][c] * FsDen(fs_width, fs_height)

-----------------------------------------------------------------------------
(* Claims about the iterations of the k-means loop (checked under SpecKM   *)
(* and SpecKMLive).                                                        *)

(* sum of channel t, and number, of the samples assigned to cluster j,
   counted sample by sample from zero. *)
AssignedSum(j, t) ==
    SumSeq([i \in 1..KmN |-> IF km_assignments[i] = j THEN km_samples[i][t] ELSE 0])
AssignedCount(j) ==
    SumSeq([i \in 1..KmN |-> IF km_assignments[i] = j THEN 1 ELSE 0])

\* C22: in each iteration the assignment pass leaves the centroids as they
\* are and gives every sample a cluster at minimum distance from that one
\* centroid vector; the update that follows the whole pass leaves the
\* assignment as it is and gives every cluster with at least one assigned
\* sample the arithmetic mean of exactly the samples assigned to it in this
\* iteration, summed and counted from zero.
C22_PassThenMeans ==
    [][/\ (km_pc = "assign" /\ km_pc' = "update") =>
              /\ km_centroids' = km_centroids
              /\ Len(km_assignments') = KmN
              /\ \A i \in 1..KmN : \A j \in 1..km_k :
                     ~Closer(km_samples[i], km_centroids[j],
                             km_centroids[km_assignments'[i] + 1])
       /\ (km_pc = "update" /\ km_pc' = "assign") =>
              /\ km_assignments' = km_assignments
              /\ \A j \in 0..(km_k - 1) :
                     AssignedCount(j) > 0 =>
                         km_centroids'[j + 1] =
                             <<<<AssignedSum(j, 1), AssignedSum(j, 2),
                                 AssignedSum(j, 3)>>, AssignedCount(j)>>]_vars

\* C22 witness: two iterations are complete and a cluster of at least two
\* samples, not all alike, holds their mean.
C22_Witness ==
    /\ km_pc = "assign" /\ km_it = 2 /\ KmN >= km_k
    /\ \E j \in 0..(km_k - 1) :
           /\ AssignedCount(j) >= 2
           /\ \E a, b \in Members(km_assignments, j) : km_samples[a] # km_samples[b]
           /\ km_centroids[j + 1][2] = AssignedCount(j)
           /\ km_centroids[j + 1][1][1] = AssignedSum(j, 1)

\* C23: a cluster to which the assignment pass of an iteration gave no
\* sample has, after the update, the centroid it had before the update; the
\* update raises nothing.
C23_EmptyClusterKeepsCentroid ==
    [][(km_pc = "update") =>
           /\ km_pc' = "assign"
           /\ \A j \in 0..(km_k - 1) :
                  Members(km_assignments, j) = {} =>
                      km_centroids'[j + 1] = km_centroids[j + 1]]_vars

\* C23 witness: an update is complete that left a cluster without samples,
\* and that cluster still has its seed, which is not (0, 0, 0).
C23_Witness ==
    /\ km_pc = "assign" /\ km_it >= 1 /\ KmN >= km_k
    /\ \E j \in 1..(km_k - 1) :
           /\ Members(km_assignments, j) = {}
           /\ km_centroids[j + 1] = SeedCentroids(km_samples, km_k)[j + 1]
           /\ km_centroids[j + 1][1] # <<0, 0, 0>>

(* The stride s = max(1, floor(N / k)) of the claim. *)
C24_Stride == IF KmN \div km_k > 1 THEN KmN \div km_k ELSE 1

\* C24: for N >= k the centroids the loop starts from are exactly the
\* samples at the indices 0, s, 2s, ..., (k-1)s in this order, with
\* s = max(1, floor(N / k)); these indices are all below N, so that there
\* are k seeds and no (0, 0, 0) padding.
C24_SeedsAtStride ==
    (km_pc = "assign" /\ km_it = 0) =>
        /\ KmN >= km_k
        /\ Len(km_centroids) = km_k
        /\ \A j \in 0..(km_k - 1) :
               /\ j * C24_Stride < KmN
               /\ km_centroids[j + 1] = <<km_samples[j * C24_Stride + 1], 1>>

\* C24 witness: the seeds are taken with stride 2, and the second seed
\* differs from the sample at index 1.
C24_Witness ==
    /\ km_pc = "assign" /\ km_it = 0
    /\ C24_Stride = 2
    /\ km_samples[3] # km_samples[2]
    /\ km_centroids[2] = <<km_samples[3], 1>>

\* C26: for N >= k the loop makes exactly I assignment passes and exactly I
\* centroid updates before it returns, whatever the data, and the call
\* always comes to its end.
C26_ExactlyIPasses ==
    /\ []((km_pc = "done" /\ KmN >= km_k) =>
              km_passes = km_max_iter /\ km_it = km_max_iter)
    /\ []((km_pc \in {"assign", "update"}) =>
              km_passes <= km_max_iter /\ km_it <= km_passes)
    /\ <>(km_pc = "done")

\* C26 witness: all samples are alike, so that no pass changes the
\* assignment, and the call has returned after MaxIter passes.
C26_Witness ==
    /\ km_pc = "done" /\ KmN >= km_k
    /\ \A i \in 1..KmN : km_samples[i] = km_samples[1]
    /\ km_max_iter = MaxIter /\ km_passes = MaxIter /\ km_it = MaxIter

-----------------------------------------------------------------------------
(* One nearest-entry lookup: the assignment of one sample in the k-means   *)
(* loop (export_4color_3mf.py 203-211, reduce_color_png.py 47-54) and      *)
(* nearest_palette_index (reduce_color_png.py 72-81), applied to inputs    *)
(* that hold ties and duplicated entries.                                  *)

(* Bound: the number of centroids / palette entries. *)
MaxEntries == 3

(* Centroids <<sum, count>>: (1, 1, 1) twice, as the sample itself and as
   the mean of two samples, (0.5, 0.5, 0.5) and (0, 0, 0). *)
NrCentroids == {<<<<20, 20, 20>>, 1>>, <<<<40, 40, 40>>, 2>>,
                <<<<10, 10, 10>>, 1>>, <<<<0, 0, 0>>, 1>>}
(* Samples; (0.75, 0.75, 0.75) is as far from 1 as from 0.5. *)
NrSamples == {<<20, 20, 20>>, <<15, 15, 15>>, <<10, 10, 10>>}
(* Palette entries and pixels; (100, 0, 100) is as far from red as from
   blue. *)
NrPalette == {<<255, 0, 0>>, <<0, 0, 255>>, <<0, 0, 0>>}
NrPixels == {<<255, 0, 0>>, <<100, 0, 100>>, <<0, 0, 0>>}

NrInit ==
    /\ nr_fn \in {"assign", "nearest_palette_index"}
    /\ nr_entries \in SeqsUpTo(IF nr_fn = "assign" THEN NrCentroids ELSE NrPalette,
                               MaxEntries) \ {<<>>}
    /\ nr_sample \in IF nr_fn = "assign" THEN NrSamples ELSE NrPixels
    /\ nr_pc = "entry"
    /\ nr_best = 0
    /\ KmIdle /\ GdIdle /\ FsIdle /\ SpIdle /\ PsIdle /\ RcIdle /\ ExIdle
    /\ SvIdle

(* export_4color_3mf.py 203-211: best for one sample, k = len(centroids). *)
NrAssign ==
    /\ nr_pc = "entry"
    /\ nr_fn = "assign"
    /\ nr_best' = NearestCentroid(nr_sample, nr_entries, Len(nr_entries))
    /\ nr_pc' = "done"
    /\ UNCHANGED <<nr_fn, nr_sample, nr_entries>>
    /\ NrFrame

(* reduce_color_png.py 72-81. *)
NrNearestPaletteIndex ==
    /\ nr_pc = "entry"
    /\ nr_fn = "nearest_palette_index"
    /\ nr_best' = nearest_palette_index(nr_sample[1], nr_sample[2], nr_sample[3],
                                        nr_entries)
    /\ nr_pc' = "done"
    /\ UNCHANGED <<nr_fn, nr_sample, nr_entries>>
    /\ NrFrame

NrNext == NrAssign \/ NrNearestPaletteIndex

SpecNearest == NrInit /\ [][NrNext]_vars

(* Entry a (1-based) is strictly nearer to the sample than entry b, by the
   squared Euclidean distance; a centroid <<sum, n>> stands for sum / n. *)
C25_Nearer(a, b) ==
    IF nr_fn = "assign"
    THEN LET ca == nr_entries[a]
             cb == nr_entries[b]
             da == SumSeq([t \in 1..3 |->
                       (nr_sample[t] * ca[2] - ca[1][t]) * (nr_sample[t] * ca[2] - ca[1][t])])
             db == SumSeq([t \in 1..3 |->
                       (nr_sample[t] * cb[2] - cb[1][t]) * (nr_sample[t] * cb[2] - cb[1][t])])
         IN  da * cb[2] * cb[2] < db * ca[2] * ca[2]
    ELSE SumSeq([t \in 1..3 |-> (nr_sample[t] - nr_entries[a][t])
                                  * (nr_sample[t] - nr_entries[a][t])])
           < SumSeq([t \in 1..3 |-> (nr_sample[t] - nr_entries[b][t])
                                      * (nr_sample[t] - nr_entries[b][t])])

\* C25: the k-means assignment step and nearest_palette_index return the
\* smallest index among the entries at minimum distance from the sample:
\* no entry is nearer than the one returned, and every entry before it is
\* farther; this holds also when entries are duplicated.
C25_LowestIndexAmongNearest ==
    nr_pc = "done" =>
        /\ nr_best \in 0..(Len(nr_entries) - 1)
        /\ \A j \in 1..Len(nr_entries) : ~C25_Nearer(j, nr_best + 1)
        /\ \A j \in 1..nr_best : C25_Nearer(nr_best + 1, j)

\* C25 witness: the assignment step has returned index 1 of three centroids
\* of which the last two are at the same, minimum distance from the sample
\* and the first is farther.
C25_Witness ==
    /\ nr_pc = "done" /\ nr_fn = "assign"
    /\ Len(nr_entries) = 3
    /\ nr_best = 1
    /\ nr_entries[2] # nr_entries[3]
    /\ ~C25_Nearer(2, 3) /\ ~C25_Nearer(3, 2)
    /\ C25_Nearer(2, 1)

-----------------------------------------------------------------------------
(* Further claims about the surface partitioner (checked under SpecSplit). *)

(* The first n input faces that belong to cluster c, in input order. *)
RECURSIVE C27_FacesOf(_, _)
C27_FacesOf(c, n) ==
    IF n = 0 THEN <<>>
    ELSE C27_FacesOf(c, n - 1)
             \o (IF ColorIdx(sp_assignments, n - 1) = c THEN <<sp_faces[n]>>
                 ELSE <<>>)

\* C27: when mesh_split_by_color returns, the sub-meshes are a faithful
\* partition of the input: the faces of the sub-mesh of cluster c, taken
\* back through the inverse of its old-to-new map, are exactly the input
\* faces assigned to c, in their input order and with their corners in
\* input order; the map is a bijection between the local indices and the
\* global vertices used, increasing with the global index; local vertex i
\* has the position of the global vertex it comes from; every input face
\* is in exactly one sub-mesh.
C27_FaithfulPartition ==
    sp_pc = "done" =>
        /\ \A o \in 1..Len(sp_new_objects) :
               LET ob == sp_new_objects[o]
               IN  /\ [f \in 1..Len(ob.faces) |->
                          [c \in 1..Len(ob.faces[f]) |-> ob.old[ob.faces[f][c] + 1]]]
                         = C27_FacesOf(ob.color_idx, Len(sp_faces))
                   /\ \A i, j \in 1..Len(ob.old) : i < j => ob.old[i] < ob.old[j]
                   /\ Len(ob.verts) = Len(ob.old)
                   /\ \A i \in 1..Len(ob.old) : ob.verts[i] = sp_co[ob.old[i] + 1]
        /\ \A i \in 1..Len(sp_faces) :
               Cardinality({o \in 1..Len(sp_new_objects) :
                   sp_new_objects[o].color_idx = ColorIdx(sp_assignments, i - 1)}) = 1
        /\ SumSeq([o \in 1..Len(sp_new_objects) |-> Len(sp_new_objects[o].faces)])
               = Len(sp_faces)

\* C27 witness: 4 faces were split into 2 sub-meshes of 2 faces each, taken
\* alternately, and in one of them a local index differs from the global
\* one.
C27_Witness ==
    /\ sp_pc = "done"
    /\ Len(sp_faces) = 4 /\ Len(sp_new_objects) = 2
    /\ sp_assignments \in {<<0, 1, 0, 1>>, <<1, 0, 1, 0>>}
    /\ \A o \in 1..2 : Len(sp_new_objects[o].faces) = 2
    /\ \E o \in 1..2 : \E i \in 1..Len(sp_new_objects[o].old) :
           sp_new_objects[o].old[i] # i - 1

-----------------------------------------------------------------------------
(* Further claims about process_scene (checked under SpecScene).           *)

(* The assignment quantize_colors_kmeans returns for the object. *)
C28_KMeansAssignment ==
    quantize_colors_kmeans(ps_face_colors, ps_num_colors, ps_iterations).assignments

\* C28: for NUM_COLORS >= 2 and an object that has faces (one without is
\* skipped), the assignment process_scene hands on is the one of
\* quantize_colors_kmeans when that holds at least 2 distinct ids,
\* and otherwise i -> i mod NUM_COLORS over its whole length; when the mesh
\* has at least 2 faces, the ids the assignment gives its faces are at
\* least 2 distinct ones.
C28_TwoClustersDownstream ==
    (ps_pc \in {"assigned", "guarded", "done", "raised"} /\ ps_face_colors # <<>>) =>
        /\ \A a \in {C28_KMeansAssignment} :
               IF Cardinality({a[i] : i \in 1..Len(a)}) < 2
               THEN /\ Len(ps_assignments) = Len(a)
                    /\ \A i \in 1..Len(a) :
                           ps_assignments[i] = (i - 1) % ps_num_colors
               ELSE ps_assignments = a
        /\ Len(ps_face_colors) >= 2 =>
               Cardinality({ColorIdx(ps_assignments, f - 1) :
                                f \in 1..Len(ps_face_colors)}) >= 2

\* C28 witness: a mesh of 2 faces and NUM_COLORS = 5: the assignment of
\* quantize_colors_kmeans, 5 zeros, was replaced by 0, 1, 2, 3, 4 and the
\* object was dealt with.
C28_Witness ==
    /\ ps_pc = "done"
    /\ Len(ps_face_colors) = 2 /\ ps_num_colors = 5
    /\ ps_assignments = <<0, 1, 2, 3, 4>>

-----------------------------------------------------------------------------
(* process_scene (export_4color_3mf.py 490-646): the objects are unlinked  *)
(* from their collections for the export and linked again in the finally   *)
(* block.  Blender keeps the collections of a file in bpy.data.collections; *)
(* the root collection of a scene, scene.collection, is owned by the scene *)
(* and is not among them.  obj.users_collection holds every collection the *)
(* object is linked to, the root collection of a scene included.           *)

(* Bound: the number of objects in candidates. *)
MaxObjects == 2

(* bpy.data.collections, by name, and the name of scene.collection. *)
DataCollections == {"Collection", "Parts"}
SceneCollection == "Scene Collection"

(* obj.users_collection, as the names [c.name for c in cols] (lines 493-494
   and 503-504). *)
UsersCollection(links, obj) ==
    {c \in DataCollections \cup {SceneCollection} : <<obj, c>> \in links}

(* bpy.data.collections.get(col_name) is not None (lines 625-626, 638-639). *)
DataCollectionsFound(col_name) == col_name \in DataCollections

(* Lines 620-631 and 633-644: the links the finally block makes for one of
   its two lists. *)
Relinked(saved) ==
    UNION {{<<saved[i][1], c>> : c \in {n \in saved[i][2] : DataCollectionsFound(n)}} :
              i \in 1..Len(saved)}

ExInit ==
    /\ ex_mode \in {"split", "vertex_color_only"}
    /\ \E n \in 1..MaxObjects :
          /\ ex_candidates = [i \in 1..n |-> <<"Cube", i>>]
          /\ ex_created = IF ex_mode = "split"
                          THEN [i \in 1..n |-> <<"Cube", i, "color0">>]
                          ELSE ex_candidates
    /\ \E own \in [1..Len(ex_candidates) ->
                      (SUBSET (DataCollections \cup {SceneCollection})) \ {{}}] :
       \E context_collection \in DataCollections \cup {SceneCollection} :
          /\ (ex_mode # "split" => context_collection = SceneCollection)
          /\ ex_before =
                 (UNION {{<<ex_candidates[i], c>> : c \in own[i]} :
                            i \in 1..Len(ex_candidates)})
                 \cup (IF ex_mode = "split"
                       THEN {<<ex_created[i], context_collection>> :
                                i \in 1..Len(ex_created)}
                       ELSE {})
    /\ ex_links = ex_before
    /\ ex_restored = <<>>
    /\ ex_created_cols = <<>>
    /\ ex_pc = "entry"
    /\ ex_raising = FALSE
    /\ KmIdle /\ GdIdle /\ FsIdle /\ SpIdle /\ PsIdle /\ RcIdle /\ NrIdle
    /\ SvIdle

(* Lines 490-510: the originals (split mode) and the objects of created are
   unlinked from all their collections, whose names are kept. *)
ExUnlink ==
    /\ ex_pc = "entry"
    /\ LET originals == IF ex_mode = "split"
                        THEN {ex_candidates[i] : i \in 1..Len(ex_candidates)}
                        ELSE {}
           links1 == {l \in ex_links : l[1] \notin originals}
       IN  /\ ex_restored' =
                  IF ex_mode = "split"
                  THEN [i \in 1..Len(ex_candidates) |->
                           <<ex_candidates[i], UsersCollection(ex_links, ex_candidates[i])>>]
                  ELSE <<>>
           /\ ex_created_cols' =
                  [i \in 1..Len(ex_created) |->
                      <<ex_created[i], UsersCollection(links1, ex_created[i])>>]
           /\ ex_links' =
                  {l \in links1 : l[1] \notin {ex_created[i] : i \in 1..Len(ex_created)}}
    /\ ex_pc' = "try"
    /\ UNCHANGED <<ex_mode, ex_candidates, ex_created, ex_before, ex_raising>>
    /\ ExFrame

(* Lines 512-615: the copies are made, exported and removed. *)
ExExport ==
    /\ ex_pc = "try"
    /\ ex_raising' = FALSE
    /\ ex_pc' = "finally"
    /\ UNCHANGED <<ex_mode, ex_candidates, ex_created, ex_before, ex_links,
                   ex_restored, ex_created_cols>>
    /\ ExFrame

(* Lines 512-615: an operator of the try block raises (bpy.ops raises
   RuntimeError; only TypeError and AttributeError are caught there). *)
ExExportRaises ==
    /\ ex_pc = "try"
    /\ ex_raising' = TRUE
    /\ ex_pc' = "finally"
    /\ UNCHANGED <<ex_mode, ex_candidates, ex_created, ex_before, ex_links,
                   ex_restored, ex_created_cols>>
    /\ ExFrame

(* Lines 616-646: the finally block links the objects again, by name. *)
ExFinally ==
    /\ ex_pc = "finally"
    /\ ex_links' = ex_links \cup Relinked(ex_created_cols) \cup Relinked(ex_restored)
    /\ ex_pc' = IF ex_raising THEN "raised" ELSE "returned"
    /\ UNCHANGED <<ex_mode, ex_candidates, ex_created, ex_before, ex_restored,
                   ex_created_cols, ex_raising>>
    /\ ExFrame

ExNext == ExUnlink \/ ExExport \/ ExExportRaises \/ ExFinally

SpecExport == ExInit /\ [][ExNext]_vars

\* C29 (as claimed): when process_scene returns or raises after it has
\* unlinked objects for the export, every object it unlinked is linked
\* again to every collection it was linked to before (all objects and
\* collections still exist under their names).
C29_LinksRestored ==
    ex_pc \in {"returned", "raised"} => ex_before \subseteq ex_links

-----------------------------------------------------------------------------
(* SAVE_UV_IMAGES_OT_to_folder.execute (save_uv_images_blender.py 74-132). *)
(* A string is the sequence of its characters.                             *)

(* Bound: the number of images in to_save. *)
MaxImages == 3

(* str.lower, on the letters that occur in the extensions of line 37. *)
LowerChar(ch) ==
    CASE ch = "A" -> "a" [] ch = "B" -> "b" [] ch = "D" -> "d"
      [] ch = "E" -> "e" [] ch = "G" -> "g" [] ch = "H" -> "h"
      [] ch = "J" -> "j" [] ch = "M" -> "m" [] ch = "N" -> "n"
      [] ch = "P" -> "p" [] ch = "R" -> "r" [] ch = "T" -> "t"
      [] ch = "X" -> "x" [] OTHER -> ch

Lower(str) == [i \in 1..Len(str) |-> LowerChar(str[i])]

(* Line 37: the alternatives of the pattern \.(png|jpg|jpeg|tga|bmp|exr|hdr)$ *)
ExtensionSuffixes ==
    { <<".", "p", "n", "g">>, <<".", "j", "p", "g">>,
      <<".", "j", "p", "e", "g">>, <<".", "t", "g", "a">>,
      <<".", "b", "m", "p">>, <<".", "e", "x", "r">>,
      <<".", "h", "d", "r">> }

(* Line 37: re.sub of the pattern at the end of name, with re.I. *)
StripExtension(name) ==
    LET tail(n) == Lower(SubSeq(name, Len(name) - n + 1, Len(name)))
        found == {e \in ExtensionSuffixes : Len(e) <= Len(name) /\ tail(Len(e)) = e}
    IN  IF found = {} THEN name
        ELSE SubSeq(name, 1, Len(name) - Len(CHOOSE e \in found : TRUE))

(* Line 38: the characters of the class [<>:"/\|?*\x00-\x1f]; of the
   control characters, tab, line feed and carriage return. *)
ForbiddenChars == {"<", ">", ":", "\"", "/", "\\", "|", "?", "*", "\t", "\n", "\r"}

(* Line 38: every such character becomes an underscore. *)
ReplaceForbidden(str) ==
    [i \in 1..Len(str) |-> IF str[i] \in ForbiddenChars THEN "_" ELSE str[i]]

(* Line 39: str.strip() removes leading and trailing whitespace. *)
Whitespace == {" ", "\t", "\n", "\r"}

Strip(str) ==
    LET kept == {i \in 1..Len(str) : str[i] \notin Whitespace}
    IN  IF kept = {} THEN <<>>
        ELSE SubSeq(str, CHOOSE i \in kept : \A j \in kept : i <= j,
                         CHOOSE i \in kept : \A j \in kept : i >= j)

(* Lines 34-39. *)
sanitize_filename(name) ==
    LET base == Strip(ReplaceForbidden(StripExtension(name)))
    IN  IF base = <<>> THEN <<"i", "m", "a", "g", "e">> ELSE base

(* os.path.splitext(path)[1] (line 102): the extension starts at the last
   dot that follows the last separator and at least one character of the
   file name that is not a dot. *)
SplitExt(path) ==
    LET sepIndex == IF \E i \in 1..Len(path) : path[i] = "/"
                    THEN CHOOSE i \in 1..Len(path) :
                             /\ path[i] = "/"
                             /\ \A j \in (i + 1)..Len(path) : path[j] # "/"
                    ELSE 0
        dots == {i \in (sepIndex + 1)..Len(path) : path[i] = "."}
        dotIndex == IF dots = {} THEN 0
                    ELSE CHOOSE i \in dots : \A j \in dots : i >= j
    IN  IF dotIndex > sepIndex
           /\ \E i \in (sepIndex + 1)..(dotIndex - 1) : path[i] # "."
        THEN SubSeq(path, dotIndex, Len(path))
        ELSE <<>>

(* Lines 100-108: the extension of the output file. *)
OutputExt(save_format, filepath_raw) ==
    IF save_format = "AUTO"
    THEN IF filepath_raw # <<>> /\ Lower(SplitExt(filepath_raw)) # <<>>
         THEN Lower(SplitExt(filepath_raw))
         ELSE <<".", "p", "n", "g">>
    ELSE IF save_format = "PNG" THEN <<".", "p", "n", "g">>
    ELSE <<".", "j", "p", "g">>

(* The decimal digits of a positive integer, as the f-string of line 112
   writes them. *)
RECURSIVE DecimalDigits(_)
DecimalDigits(n) ==
    LET digit == <<"0", "1", "2", "3", "4", "5", "6", "7", "8", "9">>
    IN  IF n < 10 THEN <<digit[n + 1]>>
        ELSE DecimalDigits(n \div 10) \o <<digit[(n % 10) + 1]>>

(* Lines 109-111: base_counts after the image with this base. *)
CountBase(base_counts, base) ==
    [b \in DOMAIN base_counts \cup {base} |->
        IF b = base
        THEN (IF base \in DOMAIN base_counts THEN base_counts[base] ELSE 0) + 1
        ELSE base_counts[b]]

(* Line 112. *)
Stem(base, count) ==
    IF count = 1 THEN base ELSE base \o <<"_">> \o DecimalDigits(count)

(* Line 113: os.path.join(out_dir, stem + ext); out_dir is the same for
   all images and is left out. *)
FilePath(stem, ext) == stem \o ext

(* Images <<name, filepath_raw, size is non-zero>>.  The names in
   bpy.data.images are unique. *)
Images ==
    { << <<"a">>, <<>>, TRUE >>,
      << <<"a", ".", "p", "n", "g">>, <<"/", "/", "t", ".", "p", "n", "g">>, TRUE >>,
      << <<"a", ".", "J", "P", "G">>, <<"/", "/", "t">>, TRUE >>,
      << <<"a", "_", "2">>, <<>>, TRUE >>,
      << <<"a", ":", "2">>, <<"/", "/", "t", ".", "J", "P", "G">>, TRUE >>,
      << <<" ", "a">>, <<"/", "/", "t", ".", "j", "p", "g">>, TRUE >>,
      << <<" ">>, <<>>, TRUE >>,
      << <<"b">>, <<>>, FALSE >> }

SvInit ==
    /\ sv_only_selected \in BOOLEAN
    /\ sv_save_format \in {"AUTO", "PNG", "JPEG"}
    /\ \E n \in 0..MaxImages :
          /\ sv_to_save \in [1..n -> Images]
          /\ \A i, j \in 1..n : i # j => sv_to_save[i] # sv_to_save[j]
    /\ sv_i = 0
    /\ sv_base_counts = <<>>
    /\ sv_saved = <<>>
    /\ sv_pc = "entry"
    /\ KmIdle /\ GdIdle /\ FsIdle /\ SpIdle /\ PsIdle /\ RcIdle /\ NrIdle
    /\ ExIdle

(* Lines 76-95: the output folder exists or is made, and there are images
   to save. *)
SvEnter ==
    /\ sv_pc = "entry"
    /\ sv_pc' = IF sv_only_selected /\ sv_to_save = <<>>
                THEN "cancelled" ELSE "loop"
    /\ UNCHANGED <<sv_to_save, sv_only_selected, sv_save_format, sv_i,
                   sv_base_counts, sv_saved>>
    /\ SvFrame

(* Lines 77-82: the output folder cannot be made. *)
SvNoFolder ==
    /\ sv_pc = "entry"
    /\ sv_pc' = "cancelled"
    /\ UNCHANGED <<sv_to_save, sv_only_selected, sv_save_format, sv_i,
                   sv_base_counts, sv_saved>>
    /\ SvFrame

(* Lines 97-98: an image without pixels is passed over. *)
SvSkip ==
    /\ sv_pc = "loop"
    /\ sv_i < Len(sv_to_save)
    /\ ~sv_to_save[sv_i + 1][3]
    /\ sv_i' = sv_i + 1
    /\ UNCHANGED <<sv_to_save, sv_only_selected, sv_save_format,
                   sv_base_counts, sv_saved, sv_pc>>
    /\ SvFrame

(* Lines 99-113: the path of the image of to_save at position i + 1. *)
ImageFilePath(i) ==
    LET img == sv_to_save[i + 1]
        base == sanitize_filename(img[1])
    IN  FilePath(Stem(base, CountBase(sv_base_counts, base)[base]),
                 OutputExt(sv_save_format, img[2]))

(* Lines 99-124: the image is saved under its path. *)
SvSave ==
    /\ sv_pc = "loop"
    /\ sv_i < Len(sv_to_save)
    /\ sv_to_save[sv_i + 1][3]
    /\ sv_base_counts' =
           CountBase(sv_base_counts, sanitize_filename(sv_to_save[sv_i + 1][1]))
    /\ sv_saved' = Append(sv_saved, ImageFilePath(sv_i))
    /\ sv_i' = sv_i + 1
    /\ UNCHANGED <<sv_to_save, sv_only_selected, sv_save_format, sv_pc>>
    /\ SvFrame

(* Lines 99-126: img.save() raises; the failure is reported and the loop
   goes on. *)
SvSaveFails ==
    /\ sv_pc = "loop"
    /\ sv_i < Len(sv_to_save)
    /\ sv_to_save[sv_i + 1][3]
    /\ sv_base_counts' =
           CountBase(sv_base_counts, sanitize_filename(sv_to_save[sv_i + 1][1]))
    /\ sv_i' = sv_i + 1
    /\ UNCHANGED <<sv_to_save, sv_only_selected, sv_save_format, sv_saved,
                   sv_pc>>
    /\ SvFrame

(* Lines 130-132. *)
SvFinish ==
    /\ sv_pc = "loop"
    /\ sv_i = Len(sv_to_save)
    /\ sv_pc' = "finished"
    /\ UNCHANGED <<sv_to_save, sv_only_selected, sv_save_format, sv_i,
                   sv_base_counts, sv_saved>>
    /\ SvFrame

SvNext ==
    SvEnter \/ SvNoFolder \/ SvSkip \/ SvSave \/ SvSaveFails \/ SvFinish

SpecSave == SvInit /\ [][SvNext]_vars

\* C30 (as claimed): within one run of execute no two images are written
\* to the same file path: the paths in saved are pairwise distinct,
\* whatever the image names are.
C30_PathsDistinct ==
    \A i, j \in 1..Len(sv_saved) : i # j => sv_saved[i] # sv_saved[j]

=============================================================================
